---------------------------- MODULE Spec2Model ----------------------------
(***************************************************************************)
(* A model of the IDL StableSwap pool (programs/idl-stableswap/src/lib.rs):*)
(* the StablePool record, the liquidity, swap, migration and admin         *)
(* handlers, the amplification ramp, the StableSwap math and the farming   *)
(* of LP tokens (FarmingPeriod, UserFarmingPosition).                      *)
(*                                                                         *)
(* Amounts are the program's own integers.  The u128 intermediate          *)
(* arithmetic of the handlers is modelled by arbitrary-precision naturals  *)
(* (sequences of base-1000 limbs, least significant first), because the    *)
(* products the code forms (balance * D * D) exceed the range of TLC's     *)
(* integers; every value stored in the pool stays an ordinary integer,     *)
(* which the step bounds below keep under 2^31 (TLC stops with an overflow *)
(* error, and never wraps, if a stored amount leaves that range).          *)
(***************************************************************************)
EXTENDS Integers, Sequences, FiniteSets, TLC

----------------------------------------------------------------------------
(* Program constants (lib.rs:25-92)                                        *)

MAX_AMPLIFICATION == 10000
MIN_AMPLIFICATION == 1
SWAP_FEE_BPS == 4
ADMIN_FEE_PERCENT == 50
N_COINS == 2
MAX_ITERATIONS == 255
CONVERGENCE_THRESHOLD == 1
MINIMUM_LIQUIDITY == 1000
AUTHORITY_TIMELOCK == 172800
MIN_SWAP_AMOUNT == 100000
MIN_INITIAL_DEPOSIT == 100000000
MIN_RAMP_DURATION == 86400
MAX_AMP_CHANGE == 10
MAX_SLIPPAGE_BPS == 500
AMP_COMMIT_DELAY == 3600
MIGRATION_FEE_MILLI_BPS == 1337
MIN_FARMING_DURATION == 86400

----------------------------------------------------------------------------
(* u128 arithmetic.  A natural number is a sequence of limbs in base BASE, *)
(* least significant limb first, without leading zero limbs; zero is <<>>. *)
(* NONE is Rust's Option::None, the result of a failed checked operation.  *)

BASE == 1000

NONE == <<-1>>

(* `let x = value;` followed by the code that uses x: F applied to the     *)
(* value, which is computed once                                           *)
With(x, F(_)) == F(x)

Max(a, b) == IF a >= b THEN a ELSE b
Min(a, b) == IF a <= b THEN a ELSE b

(* The limb i of a, zero beyond its length *)
Limb(a, i) == IF i <= Len(a) THEN a[i] ELSE 0

(* At most four limbs: the integers of the model are below 2^31 *)
ToInt(s) ==
    Limb(s, 1) + BASE * Limb(s, 2) + BASE * BASE * Limb(s, 3)
    + BASE * BASE * BASE * Limb(s, 4)

(* The largest element of a non-empty set of integers *)
SetMax(S) == CHOOSE m \in S : \A x \in S : x <= m

(* s without its leading zero limbs *)
BNorm(s) == SubSeq(s, 1, SetMax({0} \cup {i \in 1..Len(s) : s[i] # 0}))

FromInt(n) ==
    BNorm(<<n % BASE, (n \div BASE) % BASE, (n \div (BASE * BASE)) % BASE,
            n \div (BASE * BASE * BASE)>>)

(* Carry propagation over a vector of limb-wise results raw (each may      *)
(* exceed BASE or be negative).  The loop state is [i, c, out]: the next   *)
(* limb, the carry into it and the limbs done.                             *)
CarryLimb(x, st) ==
    [i |-> st.i + 1, c |-> x \div BASE, out |-> Append(st.out, x % BASE)]

RECURSIVE CarryFold(_, _)
CarryFold(raw, st) ==
    IF st.i > Len(raw) /\ st.c = 0 THEN st.out
    ELSE CarryFold(raw, CarryLimb(Limb(raw, st.i) + st.c, st))

Carry(raw) == CarryFold(raw, [i |-> 1, c |-> 0, out |-> <<>>])

BAdd(a, b) == Carry([i \in 1..Max(Len(a), Len(b)) |-> Limb(a, i) + Limb(b, i)])

(* a - b for a >= b *)
BSub(a, b) == BNorm(Carry([i \in 1..Len(a) |-> a[i] - Limb(b, i)]))

BCmpAt(a, b, i) ==
    IF i = 0 THEN 0 ELSE IF a[i] < b[i] THEN -1 ELSE 1

(* -1, 0, 1 as a < b, a = b, a > b *)
BCmp(a, b) ==
    IF Len(a) < Len(b) THEN -1
    ELSE IF Len(a) > Len(b) THEN 1
    ELSE BCmpAt(a, b, SetMax({0} \cup {i \in 1..Len(a) : a[i] # b[i]}))

(* a * k for one limb k *)
BMulSmall(a, k) == IF k = 0 THEN <<>> ELSE Carry([i \in 1..Len(a) |-> a[i] * k])

(* The sum of a[i] * b[k + 1 - i] over the i from lo to hi *)
RECURSIVE BMulColumn(_, _, _, _, _)
BMulColumn(a, b, k, lo, hi) ==
    IF lo > hi THEN 0
    ELSE a[lo] * b[k + 1 - lo] + BMulColumn(a, b, k, lo + 1, hi)

BMul(a, b) ==
    IF a = <<>> \/ b = <<>> THEN <<>>
    ELSE Carry([k \in 1..(Len(a) + Len(b) - 1) |->
                   BMulColumn(a, b, k, Max(1, k + 1 - Len(b)), Min(k, Len(a)))])

(* The next quotient limb of cur / b, for cur < b * BASE: estimated from   *)
(* the leading limbs, then lowered until b * q <= cur.                     *)
RECURSIVE BFixDigit(_, _, _)
BFixDigit(cur, b, q) ==
    IF BCmp(BMulSmall(b, q), cur) > 0 THEN BFixDigit(cur, b, q - 1) ELSE q

BQuotTop(cur, b, n) ==
    BFixDigit(cur, b, Min(BASE - 1, ToInt(SubSeq(cur, n - 1, Len(cur)))
                                    \div (b[n] * BASE + b[n - 1])))

BQuotDigit(cur, b) ==
    IF BCmp(cur, b) < 0 THEN 0
    ELSE IF Len(b) <= 2 THEN ToInt(cur) \div ToInt(b)
    ELSE BQuotTop(cur, b, Len(b))

(* Long division of a by b # 0, from the most significant limb of a.  The  *)
(* loop state is [i, q, r]: the next limb of a, the quotient limbs so far  *)
(* and the remainder so far.  Leading zero limbs of the quotient are not   *)
(* kept.                                                                   *)
BDivEmit(cur, b, st, qd) ==
    [i |-> st.i - 1,
     q |-> IF qd = 0 /\ st.q = <<>> THEN <<>> ELSE <<qd>> \o st.q,
     r |-> IF qd = 0 THEN cur ELSE BSub(cur, BMulSmall(b, qd))]

BDivCur(cur, b, st) == BDivEmit(cur, b, st, BQuotDigit(cur, b))

BDivLimb(limb, b, st) == BDivCur(BNorm(<<limb>> \o st.r), b, st)

RECURSIVE BDivFold(_, _, _)
BDivFold(a, b, st) ==
    IF st.i = 0 THEN st.q
    ELSE BDivFold(a, b, BDivLimb(a[st.i], b, st))

BDiv(a, b) == BDivFold(a, b, [i |-> Len(a), q |-> <<>>, r |-> <<>>])

(* u128::MAX = 2^128 - 1 *)
U128_MAX == <<455, 211, 768, 431, 607, 374, 463, 463, 938, 920, 366, 282, 340>>

(* Rust's checked_add / checked_sub / checked_mul / checked_div on u128,   *)
(* chained with and_then: None propagates.                                 *)
CheckU128(x) == IF BCmp(x, U128_MAX) > 0 THEN NONE ELSE x

CAdd(a, b) ==
    IF a = NONE \/ b = NONE THEN NONE ELSE CheckU128(BAdd(a, b))

CSub(a, b) ==
    IF a = NONE \/ b = NONE THEN NONE
    ELSE IF BCmp(a, b) < 0 THEN NONE ELSE BSub(a, b)

CMul(a, b) ==
    IF a = NONE \/ b = NONE THEN NONE ELSE CheckU128(BMul(a, b))

CDiv(a, b) ==
    IF a = NONE \/ b = NONE \/ b = <<>> THEN NONE ELSE BDiv(a, b)

(* floor(a * b / c) of integers, as the handlers compute it in u128:       *)
(* (a as u128).checked_mul(b).and_then(|v| v.checked_div(c)); NONE on      *)
(* overflow or division by zero                                            *)
MulDiv(a, b, c) == CDiv(CMul(FromInt(a), FromInt(b)), FromInt(c))


----------------------------------------------------------------------------
(* Results.  Ok(v) / Err(e) are Rust's Result; Option<T> is <<>> (None) or *)
(* <<v>> (Some(v)).                                                        *)

Ok(v) == [err |-> "none", val |-> v]
Err(e) == [err |-> e, val |-> 0]

None == <<>>
Some(v) == <<v>>

(* u64::saturating_sub *)
SatSub(a, b) == IF a >= b THEN a - b ELSE 0

----------------------------------------------------------------------------
(* StableSwap math (lib.rs:1652-1834)                                      *)

(* An interpolation that is not direction-aware: one signed formula *)
InterpolateSigned(initial, target, elapsed, duration) ==
    initial + ((target - initial) * elapsed) \div duration

(* The linear interpolation of get_current_amplification, in u128 *)
Interpolate(initial, target, elapsed, duration) ==
    IF target > initial
    THEN initial + ToInt(BDiv(BMul(FromInt(target - initial), FromInt(elapsed)),
                              FromInt(duration)))
    ELSE initial - ToInt(BDiv(BMul(FromInt(initial - target), FromInt(elapsed)),
                              FromInt(duration)))

(* get_current_amplification: p is the pool record, t the clock *)
get_current_amplification(p, t) ==
    IF p.ramp_stop_time = 0 \/ t >= p.ramp_stop_time
    THEN Max(p.target_amplification, p.amplification)
    ELSE IF t <= p.ramp_start_time
    THEN Max(p.initial_amplification, p.amplification)
    ELSE Interpolate(p.initial_amplification, p.target_amplification,
                     t - p.ramp_start_time, p.ramp_stop_time - p.ramp_start_time)

(* |a - b| <= CONVERGENCE_THRESHOLD on u128 values *)
Converged(a, b) ==
    IF BCmp(a, b) > 0
    THEN BCmp(BSub(a, b), FromInt(CONVERGENCE_THRESHOLD)) <= 0
    ELSE BCmp(BSub(b, a), FromInt(CONVERGENCE_THRESHOLD)) <= 0

(* The Newton loops.  A loop state is [done, err, v]: done is FALSE while  *)
(* iterating; once the loop has returned, done is TRUE and err is the      *)
(* error it returned or "none" (v the result).                             *)
(* `for _ in 0..MAX_ITERATIONS` applies the loop body up to MAX_ITERATIONS *)
(* times; the n applications are split in halves so that the evaluation    *)
(* depth stays logarithmic.                                                *)
Running(v) == [done |-> FALSE, err |-> "none", v |-> v]
Returned(v) == [done |-> TRUE, err |-> "none", v |-> v]
Failed(e) == [done |-> TRUE, err |-> e, v |-> <<>>]

(* The end of both loop bodies: the division, then the convergence check   *)
(* of the new value vnew against the previous value v                      *)
NewtonState(v, vnew) ==
    [v |-> vnew, done |-> Converged(vnew, v), err |-> "none"]

NewtonNext(v, numerator, denominator) ==
    IF numerator = NONE \/ denominator = NONE \/ denominator = <<>>
    THEN Failed("MathOverflow")
    ELSE NewtonState(v, BDiv(numerator, denominator))

(* The body of the loop of calculate_d, from d_p after both balances on *)
calculate_d_new(sum, ann, d, dp2) ==
    IF dp2 = NONE THEN Failed("MathOverflow")
    ELSE NewtonNext(d, CMul(CAdd(CMul(ann, sum), CMul(dp2, FromInt(N_COINS))), d),
                    CAdd(CMul(CSub(ann, FromInt(1)), d),
                         CMul(dp2, FromInt(N_COINS + 1))))

(* ... from d_p after the first balance on *)
calculate_d_dp(b2, sum, ann, d, dp1) ==
    IF dp1 = NONE THEN Failed("MathOverflow")
    ELSE IF b2 = <<>> THEN Returned(<<>>)
    ELSE calculate_d_new(sum, ann, d,
                         CDiv(CMul(dp1, d), CMul(b2, FromInt(N_COINS))))

(* The body of the loop of calculate_d *)
calculate_d_step(b1, b2, sum, ann, d) ==
    IF b1 = <<>> THEN Returned(<<>>)
    ELSE calculate_d_dp(b2, sum, ann, d,
                        CDiv(CMul(d, d), CMul(b1, FromInt(N_COINS))))

RECURSIVE calculate_d_loop(_, _, _, _, _, _)
calculate_d_loop(b1, b2, sum, ann, s, n) ==
    IF s.done THEN s
    ELSE IF n = 1 THEN calculate_d_step(b1, b2, sum, ann, s.v)
    ELSE calculate_d_loop(b1, b2, sum, ann,
                          calculate_d_loop(b1, b2, sum, ann, s, n \div 2),
                          n - (n \div 2))

(* The result of a Newton loop: a loop that ran out is ConvergenceFailed *)
LoopResult(s) ==
    IF s.done
    THEN (IF s.err = "none" THEN Ok(ToInt(s.v)) ELSE Err(s.err))
    ELSE Err("ConvergenceFailed")

(* calculate_d: the invariant D of two balances, Result<u128> *)
calculate_d(bags_balance, pump_balance, amplification) ==
    IF bags_balance + pump_balance = 0 THEN Ok(0)
    ELSE LoopResult(calculate_d_loop(FromInt(bags_balance), FromInt(pump_balance),
                                     FromInt(bags_balance + pump_balance),
                                     FromInt(amplification * N_COINS),
                                     Running(FromInt(bags_balance + pump_balance)),
                                     MAX_ITERATIONS))

(* calculate_d on balances given as u128 values (any u64 balance), as the  *)
(* loop state it ends in: the balances of calculate_d above are bounded by *)
(* the integers of the model checker                                       *)
calculate_d_u128(b1, b2, amplification) ==
    IF BAdd(b1, b2) = <<>> THEN Returned(<<>>)
    ELSE calculate_d_loop(b1, b2, BAdd(b1, b2), FromInt(amplification * N_COINS),
                          Running(BAdd(b1, b2)), MAX_ITERATIONS)

(* The body of the loop of calculate_y *)
calculate_y_step(c, b, d, y) ==
    NewtonNext(y, CAdd(CMul(y, y), c), CSub(CAdd(CMul(y, FromInt(2)), b), d))

RECURSIVE calculate_y_loop(_, _, _, _, _)
calculate_y_loop(c, b, d, s, n) ==
    IF s.done THEN s
    ELSE IF n = 1 THEN calculate_y_step(c, b, d, s.v)
    ELSE calculate_y_loop(c, b, d, calculate_y_loop(c, b, d, s, n \div 2),
                          n - (n \div 2))

(* calculate_y from the constants c and b of the iteration on *)
calculate_y_solve(d, c, b) ==
    IF c = NONE \/ b = NONE THEN Err("MathOverflow")
    ELSE LoopResult(calculate_y_loop(c, b, d, Running(d), MAX_ITERATIONS))

(* calculate_y: the output-side balance for input-side balance x and D *)
calculate_y(x, d, amplification) ==
    IF d = 0 \/ x = 0 THEN Ok(0)
    ELSE calculate_y_solve(
             FromInt(d),
             CDiv(CMul(CDiv(CMul(FromInt(d), FromInt(d)),
                            CMul(FromInt(x), FromInt(N_COINS))),
                       FromInt(d)),
                  CMul(FromInt(amplification * N_COINS), FromInt(N_COINS))),
             CAdd(FromInt(x), CDiv(FromInt(d), FromInt(amplification * N_COINS))))

(* A calculate_swap_output that returned the new output-side balance       *)
(* instead of the difference                                               *)
calculate_swap_y_new(y_old, y_new) ==
    IF y_new.err # "none" THEN y_new
    ELSE IF y_old < y_new.val THEN Err("MathOverflow")
    ELSE Ok(y_new.val)

(* calculate_swap_output from D on: y_old - y_new *)
calculate_swap_dy(y_old, y_new) ==
    IF y_new.err # "none" THEN y_new
    ELSE IF y_old < y_new.val THEN Err("MathOverflow")
    ELSE Ok(y_old - y_new.val)

calculate_swap_from_d(x_new, y_old, amplification, d) ==
    IF d.err # "none" THEN d
    ELSE calculate_swap_dy(y_old, calculate_y(x_new, d.val, amplification))

(* calculate_swap_output: gross output dy, Result<u64> *)
calculate_swap_output(bags_balance, pump_balance, amount_in, amplification, bags_to_pump) ==
    calculate_swap_from_d(
        IF bags_to_pump THEN bags_balance + amount_in ELSE pump_balance + amount_in,
        IF bags_to_pump THEN pump_balance ELSE bags_balance,
        amplification,
        calculate_d(bags_balance, pump_balance, amplification))

----------------------------------------------------------------------------
(* Handlers.  Every handler is a function of the pool record p, the token  *)
(* ledger l (the two vault accounts and the LP tokens users hold), the     *)
(* clock t and its arguments, to an outcome [err, pool, ledger, out]: a    *)
(* failed instruction is rolled back whole, so a rejection returns p and l *)
(* unchanged.  out is what the caller receives.  The statistics counters   *)
(* total_volume_bags / total_volume_pump are write-only and are left out.  *)

(* What a failed instruction leaves of a record it had already written to: *)
(* the runtime discards every account write of a failed instruction        *)
Persisted(before, written) == written

RolledBack(before, written) == before

Reject(p, l, e) == [err |-> e, pool |-> p, ledger |-> l, out |-> <<0, 0>>]
Accept(p, l, out) == [err |-> "none", pool |-> p, ledger |-> l, out |-> out]

(* A pause gate that never closes *)
PauseGateOpen(p) == FALSE

(* The pause gate of the deposit, swap and migration handlers              *)
(* (require!(!ctx.accounts.pool.paused, PoolPaused))                       *)
PauseGate(p) == p.paused

(* A remove_liquidity that honoured the pause flag *)
RemovePauseGateClosed(p) == p.paused

(* remove_liquidity has no pause gate ("Intentionally no pause check")     *)
RemovePauseGate(p) == FALSE

(* The vault accounts hold at least the tracked balances *)
VaultsCover(p, l) ==
    /\ l.bags_vault >= p.bags_balance
    /\ l.pump_vault >= p.pump_balance

(* floor(x * (10000 - MAX_SLIPPAGE_BPS) / 10000) *)
MinAllowed(x) == ToInt(MulDiv(x, 10000 - MAX_SLIPPAGE_BPS, 10000))

(* LP minted by the first two-sided deposit, and the lp_supply it sets *)
FirstDepositLp(d1) ==
    IF d1 < MINIMUM_LIQUIDITY THEN Err("InsufficientLiquidity")
    ELSE Ok(d1 - MINIMUM_LIQUIDITY)

(* A first deposit that locks nothing *)
FirstDepositSupplyBare(lp_amount) == lp_amount

(* lp_supply after the first deposit: MINIMUM_LIQUIDITY (locked) + lp_amount *)
FirstDepositSupply(lp_amount) == MINIMUM_LIQUIDITY + lp_amount

(* LP minted by a later deposit: (d1 - d0) * old_lp_supply / d0 *)
OkOrOverflow(x) == IF x = NONE THEN Err("MathOverflow") ELSE Ok(ToInt(x))

(* A mint in proportion to the new invariant: (d1 - d0) * old_lp_supply / d1 *)
LaterDepositLpOfNew(d0, d1, old_lp_supply) ==
    OkOrOverflow(MulDiv(d1 - d0, old_lp_supply, d1))

(* A mint of one LP unit more than the floor of the proportional amount *)
LaterDepositLpRoundedUp(d0, d1, old_lp_supply) ==
    IF MulDiv(d1 - d0, old_lp_supply, d0) = NONE THEN Err("MathOverflow")
    ELSE Ok(ToInt(MulDiv(d1 - d0, old_lp_supply, d0)) + 1)

LaterDepositLp(d0, d1, old_lp_supply) == OkOrOverflow(MulDiv(d1 - d0, old_lp_supply, d0))

(* |new_balance - ideal| * SWAP_FEE_BPS / 10000, on u128 values: the ideal *)
(* balance of a deposit into a lopsided pool is far above the balances     *)
ImbalanceFeeOf(new_balance, ideal) ==
    IF ideal = NONE THEN Err("MathOverflow")
    ELSE Ok(ToInt(BDiv(BMul(IF BCmp(new_balance, ideal) > 0
                            THEN BSub(new_balance, ideal)
                            ELSE BSub(ideal, new_balance),
                            FromInt(SWAP_FEE_BPS)),
                       FromInt(10000))))

(* The imbalance fee of a later deposit on one asset; the ideal balance is *)
(* old_balance * d1 / d0                                                   *)
ImbalanceFee(old_balance, new_balance, d0, d1) ==
    ImbalanceFeeOf(FromInt(new_balance), MulDiv(old_balance, d1, d0))

(* add_liquidity from the minted LP amount and the imbalance fees on *)
add_liquidity_mint(p, l, bags_amount, pump_amount, min_lp_amount, lp, fee_bags, fee_pump) ==
    IF lp.err # "none" THEN Reject(p, l, lp.err)
    ELSE IF fee_bags.err # "none" THEN Reject(p, l, fee_bags.err)
    ELSE IF fee_pump.err # "none" THEN Reject(p, l, fee_pump.err)
    ELSE IF ~(lp.val >= min_lp_amount) THEN Reject(p, l, "SlippageExceeded")
    ELSE Accept(
            [p EXCEPT !.bags_balance = @ + bags_amount,
                      !.pump_balance = @ + pump_amount,
                      !.lp_supply = IF p.lp_supply = 0
                                    THEN FirstDepositSupply(lp.val)
                                    ELSE p.lp_supply + lp.val,
                      !.admin_fees_bags = @ + (fee_bags.val * ADMIN_FEE_PERCENT) \div 100,
                      !.admin_fees_pump = @ + (fee_pump.val * ADMIN_FEE_PERCENT) \div 100],
            [l EXCEPT !.bags_vault = @ + bags_amount,
                      !.pump_vault = @ + pump_amount,
                      !.user_lp = @ + lp.val],
            <<lp.val, 0>>)

(* A deposit whose effect on the invariant is not checked *)
InvariantUnchecked(d0, d1) == TRUE

(* require!(d1 > d0, InvariantViolation) *)
InvariantGrew(d0, d1) == d1 > d0

(* add_liquidity from the invariants d0 (before) and d1 (after) on *)
add_liquidity_priced(p, l, bags_amount, pump_amount, min_lp_amount, d0, d1) ==
    IF d0.err # "none" THEN Reject(p, l, d0.err)
    ELSE IF d1.err # "none" THEN Reject(p, l, d1.err)
    ELSE IF ~InvariantGrew(d0.val, d1.val) THEN Reject(p, l, "InvariantViolation")
    ELSE add_liquidity_mint(
             p, l, bags_amount, pump_amount, min_lp_amount,
             IF p.lp_supply = 0 THEN FirstDepositLp(d1.val)
             ELSE LaterDepositLp(d0.val, d1.val, p.lp_supply),
             IF p.lp_supply = 0 THEN Ok(0)
             ELSE ImbalanceFee(p.bags_balance, p.bags_balance + bags_amount,
                               d0.val, d1.val),
             IF p.lp_supply = 0 THEN Ok(0)
             ELSE ImbalanceFee(p.pump_balance, p.pump_balance + pump_amount,
                               d0.val, d1.val))

add_liquidity(p, l, t, bags_amount, pump_amount, min_lp_amount) ==
    IF PauseGate(p) THEN Reject(p, l, "PoolPaused")
    ELSE IF ~(bags_amount > 0 \/ pump_amount > 0) THEN Reject(p, l, "ZeroAmount")
    ELSE IF p.lp_supply = 0
            /\ ~(bags_amount >= MIN_INITIAL_DEPOSIT /\ pump_amount >= MIN_INITIAL_DEPOSIT)
         THEN Reject(p, l, "InitialDepositTooSmall")
    ELSE IF ~VaultsCover(p, l) THEN Reject(p, l, "VaultBalanceMismatch")
    ELSE add_liquidity_priced(
             p, l, bags_amount, pump_amount, min_lp_amount,
             calculate_d(p.bags_balance, p.pump_balance, get_current_amplification(p, t)),
             calculate_d(p.bags_balance + bags_amount, p.pump_balance + pump_amount,
                         get_current_amplification(p, t)))

(* The exit fee rate of remove_liquidity, in basis points: swap_fee_bps    *)
(* scaled by the distance of the BAGS share from 50%                       *)
ImbalanceBps(bags_ratio) ==
    IF bags_ratio > 5000 THEN bags_ratio - 5000 ELSE 5000 - bags_ratio

(* An exit fee at the full swap fee whatever the imbalance *)
FullFeeBps(p) == p.swap_fee_bps

EffectiveFeeBps(p) ==
    (p.swap_fee_bps
       * ImbalanceBps(ToInt(MulDiv(p.bags_balance, 10000, p.bags_balance + p.pump_balance))))
    \div 5000

(* The exit fee on one proportional amount *)
ExitFee(p, proportional) ==
    IF p.bags_balance + p.pump_balance > 0
    THEN ToInt(MulDiv(proportional, EffectiveFeeBps(p), 10000))
    ELSE 0

(* A withdrawal that may take the supply below the locked minimum *)
LiquidityFloorDropped(p, lp_amount) == TRUE

(* lp_supply.saturating_sub(lp_amount) >= MINIMUM_LIQUIDITY *)
LiquidityFloorKept(p, lp_amount) == SatSub(p.lp_supply, lp_amount) >= MINIMUM_LIQUIDITY

remove_liquidity(p, l, lp_amount, min_bags_amount, min_pump_amount) ==
    IF RemovePauseGate(p) THEN Reject(p, l, "PoolPaused")
    ELSE IF ~(lp_amount > 0) THEN Reject(p, l, "ZeroAmount")
    ELSE IF ~(p.lp_supply > lp_amount) THEN Reject(p, l, "InsufficientLiquidity")
    ELSE IF ~LiquidityFloorKept(p, lp_amount)
         THEN Reject(p, l, "InsufficientLiquidity")
    ELSE
    With(MulDiv(p.bags_balance, lp_amount, p.lp_supply), LAMBDA bags_proportional :
    With(MulDiv(p.pump_balance, lp_amount, p.lp_supply), LAMBDA pump_proportional :
      IF bags_proportional = NONE \/ pump_proportional = NONE
      THEN Reject(p, l, "MathOverflow")
      ELSE
    With(ToInt(bags_proportional), LAMBDA bags_prop :
    With(ToInt(pump_proportional), LAMBDA pump_prop :
    With(ExitFee(p, bags_prop), LAMBDA fee_bags :
    With(ExitFee(p, pump_prop), LAMBDA fee_pump :
    With(SatSub(bags_prop, fee_bags), LAMBDA bags_amount :
    With(SatSub(pump_prop, fee_pump), LAMBDA pump_amount :
      IF ~(bags_amount >= min_bags_amount) THEN Reject(p, l, "SlippageExceeded")
      ELSE IF ~(pump_amount >= min_pump_amount) THEN Reject(p, l, "SlippageExceeded")
      ELSE IF l.user_lp < lp_amount THEN Reject(p, l, "TokenInsufficientFunds")
      ELSE IF l.bags_vault < bags_amount \/ l.pump_vault < pump_amount
           THEN Reject(p, l, "TokenInsufficientFunds")
      ELSE Accept(
              [p EXCEPT !.lp_supply = @ - lp_amount,
                        !.bags_balance = @ - bags_prop,
                        !.pump_balance = @ - pump_prop,
                        !.admin_fees_bags =
                            @ + ToInt(MulDiv(fee_bags, p.admin_fee_percent, 100)),
                        !.admin_fees_pump =
                            @ + ToInt(MulDiv(fee_pump, p.admin_fee_percent, 100))],
              [l EXCEPT !.bags_vault = @ - bags_amount,
                        !.pump_vault = @ - pump_amount,
                        !.user_lp = @ - lp_amount],
              <<bags_amount, pump_amount>>)))))))))

(* LP minted by a single-sided deposit into an empty pool (lp_supply = 0) *)
SingleSidedFirstLp(amount) ==
    IF ~(amount >= MIN_INITIAL_DEPOSIT) THEN Err("InitialDepositTooSmall")
    ELSE IF amount < MINIMUM_LIQUIDITY THEN Err("InitialDepositTooSmall")
    ELSE Ok(amount - MINIMUM_LIQUIDITY)

(* A single-sided deposit that minted one LP per unit deposited *)
SingleSidedLpOneToOne(amount, lp_supply, total_pool_value) == Ok(amount)

(* LP minted by a single-sided deposit into a pool with supply and value:  *)
(* amount * lp_supply / total_pool_value                                   *)
SingleSidedLp(amount, lp_supply, total_pool_value) ==
    OkOrOverflow(MulDiv(amount, lp_supply, total_pool_value))

(* lp_supply after a single-sided deposit that minted lp_amount *)
SingleSidedSupply(p, lp_amount) == p.lp_supply + lp_amount

(* user_token_mint is the mint of the caller's token account: the account  *)
(* constraint admits only the BAGS and the PUMP mint                       *)
add_liquidity_single_sided(p, l, amount, is_bags, user_token_mint, min_lp_amount) ==
    IF PauseGate(p) THEN Reject(p, l, "PoolPaused")
    ELSE IF ~(amount > 0) THEN Reject(p, l, "ZeroAmount")
    ELSE IF ~(amount >= MIN_SWAP_AMOUNT) THEN Reject(p, l, "AmountTooSmall")
    ELSE IF user_token_mint # (IF is_bags THEN "bags" ELSE "pump")
         THEN Reject(p, l, "InvalidMint")
    ELSE
    With(p.bags_balance + p.pump_balance, LAMBDA total_pool_value :
    With(IF p.lp_supply = 0 THEN SingleSidedFirstLp(amount)
         ELSE IF total_pool_value = 0 THEN Err("InsufficientLiquidity")
         ELSE SingleSidedLp(amount, p.lp_supply, total_pool_value), LAMBDA lp :
      IF lp.err # "none" THEN Reject(p, l, lp.err)
      ELSE IF ~(lp.val >= min_lp_amount) THEN Reject(p, l, "SlippageExceeded")
      ELSE IF p.lp_supply > 0 /\ total_pool_value > 0
              /\ ~(min_lp_amount >= MinAllowed(lp.val))
           THEN Reject(p, l, "SlippageTooHigh")
      ELSE Accept(
              [p EXCEPT !.bags_balance = IF is_bags THEN @ + amount ELSE @,
                        !.pump_balance = IF is_bags THEN @ ELSE @ + amount,
                        !.lp_supply = SingleSidedSupply(p, lp.val)],
              [l EXCEPT !.bags_vault = IF is_bags THEN @ + amount ELSE @,
                        !.pump_vault = IF is_bags THEN @ ELSE @ + amount,
                        !.user_lp = @ + lp.val],
              <<lp.val, 0>>)))

(* A migration fee in whole basis points: amount_in * 13 / 10_000 *)
MigrationFeeBps(amount_in) == ToInt(MulDiv(amount_in, 13, 10000))

(* The flat migration fee: amount_in * 1337 / 1_000_000 *)
MigrationFee(amount_in) == ToInt(MulDiv(amount_in, MIGRATION_FEE_MILLI_BPS, 1000000))

(* The pool and the ledger after a trade that took amount_in of one asset, *)
(* lowered the tracked balance of the other by balance_out, paid paid_out  *)
(* from its vault and accrued admin_fee on it                              *)
TradePool(p, amount_in, balance_out, admin_fee, bags_to_pump) ==
    IF bags_to_pump
    THEN [p EXCEPT !.bags_balance = @ + amount_in,
                   !.pump_balance = @ - balance_out,
                   !.admin_fees_pump = @ + admin_fee]
    ELSE [p EXCEPT !.pump_balance = @ + amount_in,
                   !.bags_balance = @ - balance_out,
                   !.admin_fees_bags = @ + admin_fee]

TradeLedger(l, amount_in, paid_out, bags_to_pump) ==
    IF bags_to_pump
    THEN [l EXCEPT !.bags_vault = @ + amount_in, !.pump_vault = @ - paid_out]
    ELSE [l EXCEPT !.pump_vault = @ + amount_in, !.bags_vault = @ - paid_out]

(* A trade handler that accepted any min_amount_out *)
SlippageFloorWaived(amount_in, min_amount_out) == TRUE

(* require!(min_amount_out >= min_allowed, SlippageTooHigh) *)
SlippageFloorMet(amount_in, min_amount_out) == min_amount_out >= MinAllowed(amount_in)

(* A deadline that had to lie strictly ahead *)
DeadlineAhead(t, deadline) == t < deadline

(* require!(clock.unix_timestamp <= deadline, TransactionExpired) *)
DeadlineMet(t, deadline) == t <= deadline

(* The checks shared by the swap and migration handlers before pricing *)
TradeGate(p, l, t, amount_in, min_amount_out, deadline) ==
    IF PauseGate(p) THEN "PoolPaused"
    ELSE IF ~(amount_in >= MIN_SWAP_AMOUNT) THEN "AmountTooSmall"
    ELSE IF ~SlippageFloorMet(amount_in, min_amount_out) THEN "SlippageTooHigh"
    ELSE IF ~DeadlineMet(t, deadline) THEN "TransactionExpired"
    ELSE IF ~VaultsCover(p, l) THEN "VaultBalanceMismatch"
    ELSE "none"

(* migrate_bags_to_pump (bags_to_pump) and migrate_pump_to_bags *)
migrate(p, l, t, amount_in, min_amount_out, deadline, bags_to_pump) ==
    With(TradeGate(p, l, t, amount_in, min_amount_out, deadline), LAMBDA gate :
      IF gate # "none" THEN Reject(p, l, gate)
      ELSE
    With(MigrationFee(amount_in), LAMBDA fee :
    With(amount_in - fee, LAMBDA amount_out :
      IF ~(amount_out >= min_amount_out) THEN Reject(p, l, "SlippageExceeded")
      ELSE IF ~(amount_out <= (IF bags_to_pump THEN p.pump_balance ELSE p.bags_balance))
           THEN Reject(p, l, "InsufficientLiquidity")
      ELSE IF (IF bags_to_pump THEN l.pump_vault ELSE l.bags_vault) < amount_out
           THEN Reject(p, l, "TokenInsufficientFunds")
      ELSE Accept(TradePool(p, amount_in, amount_out,
                            ToInt(MulDiv(fee, p.admin_fee_percent, 100)), bags_to_pump),
                  TradeLedger(l, amount_in, amount_out, bags_to_pump),
                  <<amount_out, fee>>))))

(* A swap that lowered the output-side tracked balance by what it paid *)
SwapBalanceOutNet(amount_out, amount_out_after_fee) == amount_out_after_fee

(* The output-side tracked balance falls by amount_out, the gross output   *)
(* ("Reduce by amount_out (not amount_out_after_fee)")                     *)
SwapBalanceOut(amount_out, amount_out_after_fee) == amount_out

(* The swap fee on the gross output: amount_out * swap_fee_bps / 10000 *)
SwapFee(amount_out, swap_fee_bps) == ToInt(MulDiv(amount_out, swap_fee_bps, 10000))

(* swap_bags_to_pump (bags_to_pump) and swap_pump_to_bags *)
swap(p, l, t, amount_in, min_amount_out, deadline, bags_to_pump) ==
    With(TradeGate(p, l, t, amount_in, min_amount_out, deadline), LAMBDA gate :
      IF gate # "none" THEN Reject(p, l, gate)
      ELSE
    With(calculate_swap_output(p.bags_balance, p.pump_balance, amount_in,
                               get_current_amplification(p, t), bags_to_pump),
         LAMBDA gross :
      IF gross.err # "none" THEN Reject(p, l, gross.err)
      ELSE
    With(gross.val, LAMBDA amount_out :
    With(SwapFee(amount_out, p.swap_fee_bps), LAMBDA fee :
    With(amount_out - fee, LAMBDA amount_out_after_fee :
      IF ~(amount_out_after_fee >= min_amount_out) THEN Reject(p, l, "SlippageExceeded")
      ELSE IF ~(amount_out_after_fee
                  <= (IF bags_to_pump THEN p.pump_balance ELSE p.bags_balance))
           THEN Reject(p, l, "InsufficientLiquidity")
      ELSE IF (IF bags_to_pump THEN l.pump_vault ELSE l.bags_vault) < amount_out_after_fee
           THEN Reject(p, l, "TokenInsufficientFunds")
      ELSE Accept(TradePool(p, amount_in, SwapBalanceOut(amount_out, amount_out_after_fee),
                            ToInt(MulDiv(fee, p.admin_fee_percent, 100)), bags_to_pump),
                  TradeLedger(l, amount_in, amount_out_after_fee, bags_to_pump),
                  <<amount_out_after_fee, amount_out>>))))))

----------------------------------------------------------------------------
(* Admin handlers.  signer is the key of the authority account passed in;  *)
(* the AdminOnly / WithdrawAdminFees account constraint                    *)
(* pool.authority == authority.key() is checked before the handler body.   *)

DefaultPubkey == "default"

(* A gate that lets every signer through *)
AdminGateOpen(p, signer) == TRUE

AdminGate(p, signer) == p.authority = signer

(* sha256(target_amplification || ramp_duration || salt): an injective     *)
(* function of the three revealed values                                   *)
Hash(target_amplification, ramp_duration, salt) ==
    <<"sha256", target_amplification, ramp_duration, salt>>

commit_amp_ramp(p, l, t, signer, commit_hash) ==
    IF ~AdminGate(p, signer) THEN Reject(p, l, "Unauthorized")
    ELSE Accept([p EXCEPT !.pending_amp_commit = Some(commit_hash),
                          !.amp_commit_time = Some(t)],
                l, <<0, 0>>)

(* A reveal that waits for no delay after the commit *)
CommitDelaySkipped(t, commit_time) == t >= commit_time

(* clock.unix_timestamp >= commit_time + AMP_COMMIT_DELAY *)
CommitDelayPassed(t, commit_time) == t >= commit_time + AMP_COMMIT_DELAY

(* computed_hash.to_bytes() == pending_commit *)
RevealMatches(pending_commit, target_amplification, ramp_duration, salt) ==
    Hash(target_amplification, ramp_duration, salt) = pending_commit

(* A reveal that leaves the commit in place *)
KeepCommit(p) == p

(* "Clear the commit" *)
ClearCommit(p) == [p EXCEPT !.pending_amp_commit = None, !.amp_commit_time = None]

(* ramp_duration >= MIN_RAMP_DURATION *)
RampDurationOk(ramp_duration) == ramp_duration >= MIN_RAMP_DURATION

(* target within [MIN_AMPLIFICATION, MAX_AMPLIFICATION] *)
(* A range check that accepts every value *)
AmplificationUnchecked(a) == TRUE

AmplificationInRange(a) == a >= MIN_AMPLIFICATION /\ a <= MAX_AMPLIFICATION

(* The max-change constraint: max_new = current_amp * 10 (saturating, and  *)
(* far from u64::MAX here), min_new = current_amp / 10                     *)
AmpChangeAllowed(current_amp, target_amplification) ==
    LET max_new == current_amp * MAX_AMP_CHANGE
        min_new == current_amp \div MAX_AMP_CHANGE
    IN  target_amplification <= max_new /\ target_amplification >= min_new

ramp_amplification(p, l, t, signer, target_amplification, ramp_duration, salt) ==
    IF ~AdminGate(p, signer) THEN Reject(p, l, "Unauthorized")
    ELSE IF ~AmplificationInRange(target_amplification)
         THEN Reject(p, l, "InvalidAmplification")
    ELSE IF ~RampDurationOk(ramp_duration) THEN Reject(p, l, "RampTooFast")
    ELSE IF p.pending_amp_commit = None THEN Reject(p, l, "NoAmpCommitPending")
    ELSE IF p.amp_commit_time = None THEN Reject(p, l, "NoAmpCommitPending")
    ELSE IF ~CommitDelayPassed(t, p.amp_commit_time[1])
         THEN Reject(p, l, "AmpCommitDelayNotPassed")
    ELSE IF ~RevealMatches(p.pending_amp_commit[1], target_amplification,
                           ramp_duration, salt)
         THEN Reject(p, l, "AmpCommitMismatch")
    ELSE
    With(ClearCommit(p), LAMBDA cleared :
    With(get_current_amplification(cleared, t), LAMBDA current_amp :
      IF ~AmpChangeAllowed(current_amp, target_amplification)
      THEN Reject(RolledBack(p, cleared), l, "AmpChangeTooLarge")
      ELSE Accept([cleared EXCEPT !.initial_amplification = current_amp,
                                  !.target_amplification = target_amplification,
                                  !.ramp_start_time = t,
                                  !.ramp_stop_time = t + ramp_duration],
                  l, <<0, 0>>)))

(* A stop that leaves the base amplification as it was *)
StoppedAmplificationKept(p, current_amp) == p.amplification

(* pool.amplification = current_amp *)
StoppedAmplification(p, current_amp) == current_amp

stop_ramp_amplification(p, l, t, signer) ==
    IF ~AdminGate(p, signer) THEN Reject(p, l, "Unauthorized")
    ELSE With(get_current_amplification(p, t), LAMBDA current_amp :
           Accept([p EXCEPT !.initial_amplification = current_amp,
                            !.target_amplification = current_amp,
                            !.amplification = StoppedAmplification(p, current_amp),
                            !.ramp_start_time = 0,
                            !.ramp_stop_time = 0],
                  l, <<0, 0>>))

update_swap_fee(p, l, signer, new_fee_bps) ==
    IF ~AdminGate(p, signer) THEN Reject(p, l, "Unauthorized")
    ELSE IF ~(new_fee_bps <= 100) THEN Reject(p, l, "FeeTooHigh")
    ELSE Accept([p EXCEPT !.swap_fee_bps = new_fee_bps], l, <<0, 0>>)

set_paused(p, l, signer, paused) ==
    IF ~AdminGate(p, signer) THEN Reject(p, l, "Unauthorized")
    ELSE Accept([p EXCEPT !.paused = paused], l, <<0, 0>>)

(* A withdrawal of all the fees accrued, whatever the vault holds *)
AccruedFees(fees, vault, balance) == fees

(* min(fees, vault.saturating_sub(tracked balance)) *)
WithdrawableFees(fees, vault, balance) == Min(fees, SatSub(vault, balance))

withdraw_admin_fees(p, l, signer) ==
    IF ~AdminGate(p, signer) THEN Reject(p, l, "Unauthorized")
    ELSE IF ~(p.admin_fees_bags > 0 \/ p.admin_fees_pump > 0)
         THEN Reject(p, l, "NoFeesToWithdraw")
    ELSE IF ~(p.admin_fees_bags <= l.bags_vault) THEN Reject(p, l, "InsufficientLiquidity")
    ELSE IF ~(p.admin_fees_pump <= l.pump_vault) THEN Reject(p, l, "InsufficientLiquidity")
    ELSE
    With(WithdrawableFees(p.admin_fees_bags, l.bags_vault, p.bags_balance),
         LAMBDA bags_to_withdraw :
    With(WithdrawableFees(p.admin_fees_pump, l.pump_vault, p.pump_balance),
         LAMBDA pump_to_withdraw :
      IF ~(bags_to_withdraw > 0 \/ pump_to_withdraw > 0)
      THEN Reject(p, l, "NoFeesToWithdraw")
      ELSE Accept([p EXCEPT !.admin_fees_bags = SatSub(@, bags_to_withdraw),
                            !.admin_fees_pump = SatSub(@, pump_to_withdraw)],
                  [l EXCEPT !.bags_vault = @ - bags_to_withdraw,
                            !.pump_vault = @ - pump_to_withdraw],
                  <<bags_to_withdraw, pump_to_withdraw>>)))

initiate_authority_transfer(p, l, t, signer, new_authority) ==
    IF ~AdminGate(p, signer) THEN Reject(p, l, "Unauthorized")
    ELSE IF ~(new_authority # DefaultPubkey) THEN Reject(p, l, "InvalidAuthority")
    ELSE Accept([p EXCEPT !.pending_authority = Some(new_authority),
                          !.authority_transfer_time = Some(t)],
                l, <<0, 0>>)

(* A handoff without a timelock *)
TimelockWaived(t, transfer_time) == t >= transfer_time

(* clock.unix_timestamp >= transfer_time + AUTHORITY_TIMELOCK *)
TimelockExpired(t, transfer_time) == t >= transfer_time + AUTHORITY_TIMELOCK

complete_authority_transfer(p, l, t, signer) ==
    IF p.pending_authority = None THEN Reject(p, l, "NoTransferPending")
    ELSE IF p.authority_transfer_time = None THEN Reject(p, l, "NoTransferPending")
    ELSE IF ~(p.pending_authority[1] = signer) THEN Reject(p, l, "Unauthorized")
    ELSE IF ~TimelockExpired(t, p.authority_transfer_time[1])
         THEN Reject(p, l, "TimelockNotExpired")
    ELSE Accept([p EXCEPT !.authority = p.pending_authority[1],
                          !.pending_authority = None,
                          !.authority_transfer_time = None],
                l, <<0, 0>>)

cancel_authority_transfer(p, l, signer) ==
    IF ~AdminGate(p, signer) THEN Reject(p, l, "Unauthorized")
    ELSE IF p.pending_authority = None THEN Reject(p, l, "NoTransferPending")
    ELSE Accept([p EXCEPT !.pending_authority = None,
                          !.authority_transfer_time = None],
                l, <<0, 0>>)

----------------------------------------------------------------------------
(* Farming.  A handler is a function of the FarmingPeriod record, the      *)
(* UserFarmingPosition record of the caller, the token accounts of the     *)
(* farm fl (the reward account of the authority, farming_vault,            *)
(* staked_lp_vault, and per user the LP and the reward account) and the    *)
(* clock, to an outcome [err, period, position, ledger, out]; out[1] is    *)
(* the reward paid.  acc_reward_per_share is a u128 and is kept in limbs;  *)
(* the u64 fields stay far from u64::MAX, so their checked additions       *)
(* never fail and the `as u64` casts never truncate.                       *)

(* REWARD_PRECISION = 1_000_000_000_000 as a u128 *)
REWARD_PRECISION == <<0, 0, 0, 0, 1>>

FarmReject(period, position, fl, e) ==
    [err |-> e, period |-> period, position |-> position, ledger |-> fl, out |-> <<0, 0>>]
FarmAccept(period, position, fl, out) ==
    [err |-> "none", period |-> period, position |-> position, ledger |-> fl, out |-> out]

(* The period account as create_farming_period fills it *)
NewPeriod(start_time, end_time, reward_per_second, total_rewards) ==
    [start_time |-> start_time,
     end_time |-> end_time,
     reward_per_second |-> reward_per_second,
     total_rewards |-> total_rewards,
     distributed_rewards |-> 0,
     last_update_time |-> start_time,
     acc_reward_per_share |-> <<>>,
     total_staked |-> 0]

(* A position account before its first stake *)
NewPosition ==
    [owner |-> DefaultPubkey, farming_period |-> DefaultPubkey,
     lp_staked |-> 0, reward_debt |-> 0, pending_rewards |-> 0]

(* The key of the one farming period the model follows *)
PeriodKey == "farming_period"

create_farming_period(p, fl, t, signer, start_time, end_time, total_rewards) ==
    IF ~AdminGate(p, signer) THEN FarmReject(None, NewPosition, fl, "Unauthorized")
    ELSE IF ~(start_time >= t) THEN FarmReject(None, NewPosition, fl, "InvalidFarmingPeriod")
    ELSE IF ~(end_time > start_time)
         THEN FarmReject(None, NewPosition, fl, "InvalidFarmingPeriod")
    ELSE IF ~(end_time - start_time >= MIN_FARMING_DURATION)
         THEN FarmReject(None, NewPosition, fl, "FarmingPeriodTooShort")
    ELSE IF ~(total_rewards > 0) THEN FarmReject(None, NewPosition, fl, "ZeroAmount")
    ELSE IF ~(total_rewards \div (end_time - start_time) > 0)
         THEN FarmReject(None, NewPosition, fl, "ZeroAmount")
    ELSE IF fl.authority_reward < total_rewards
         THEN FarmReject(None, NewPosition, fl, "InsufficientFunds")
    ELSE FarmAccept(Some(NewPeriod(start_time, end_time,
                                   total_rewards \div (end_time - start_time),
                                   total_rewards)),
                    NewPosition,
                    [fl EXCEPT !.authority_reward = @ - total_rewards,
                               !.farming_vault = @ + total_rewards],
                    <<0, 0>>)

(* An accumulator step that is not divided among the stake *)
RewardPerShareUndivided(reward_per_second, time_elapsed, total_staked) ==
    CMul(CMul(FromInt(reward_per_second), FromInt(time_elapsed)), REWARD_PRECISION)

(* reward_per_second * time_elapsed * REWARD_PRECISION / total_staked *)
RewardPerShareIncrease(reward_per_second, time_elapsed, total_staked) ==
    CDiv(CMul(CMul(FromInt(reward_per_second), FromInt(time_elapsed)), REWARD_PRECISION),
         FromInt(total_staked))

update_farming_accrue(period, effective_time, increase) ==
    IF CAdd(period.acc_reward_per_share, increase) = NONE THEN Err("MathOverflow")
    ELSE Ok([period EXCEPT !.acc_reward_per_share = CAdd(@, increase),
                           !.last_update_time = effective_time])

(* An accrual that runs past the end of the period *)
EffectiveTimeUncapped(current_time, end_time) == current_time

(* effective_time = min(current_time, period.end_time) *)
EffectiveTime(current_time, end_time) == Min(current_time, end_time)

update_farming_rewards(period, t) ==
    IF t < period.start_time THEN Ok(period)
    ELSE IF period.total_staked = 0
         THEN Ok([period EXCEPT !.last_update_time = Max(t, period.start_time)])
    ELSE IF EffectiveTime(t, period.end_time) <= period.last_update_time THEN Ok(period)
    ELSE update_farming_accrue(period, EffectiveTime(t, period.end_time),
             RewardPerShareIncrease(period.reward_per_second,
                                    EffectiveTime(t, period.end_time)
                                      - period.last_update_time,
                                    period.total_staked))

(* lp_staked * acc_reward_per_share / REWARD_PRECISION *)
AccumulatedReward(lp_staked, acc_reward_per_share) ==
    CDiv(CMul(FromInt(lp_staked), acc_reward_per_share), REWARD_PRECISION)

calculate_pending_rewards(position, period) ==
    IF position.lp_staked = 0 THEN Ok(0)
    ELSE With(AccumulatedReward(position.lp_staked, period.acc_reward_per_share),
              LAMBDA accumulated :
                IF accumulated = NONE THEN Err("MathOverflow")
                ELSE Ok(SatSub(ToInt(accumulated), position.reward_debt)))

calculate_reward_debt(lp_staked, acc_reward_per_share) ==
    OkOrOverflow(AccumulatedReward(lp_staked, acc_reward_per_share))

(* The staking window of stake_lp *)
StakeWindowNeverCloses(period, t) == TRUE

StakeWindowOpen(period, t) == t < period.end_time

(* A reward debt taken on the stake before the deposit *)
StakeBefore(position, amount) == position.lp_staked

(* lp_staked.checked_add(amount): the stake the reward debt is reset on *)
StakeAfter(position, amount) == position.lp_staked + amount

stake_lp_update(period, position, fl, user, amount, pending) ==
    With(calculate_reward_debt(StakeAfter(position, amount), period.acc_reward_per_share),
         LAMBDA debt :
           IF debt.err # "none" THEN FarmReject(period, position, fl, debt.err)
           ELSE FarmAccept([period EXCEPT !.total_staked = @ + amount],
                           [position EXCEPT !.owner = user,
                                            !.farming_period = PeriodKey,
                                            !.lp_staked = @ + amount,
                                            !.reward_debt = debt.val,
                                            !.pending_rewards = @ + pending],
                           [fl EXCEPT !.user_lp[user] = @ - amount,
                                      !.staked_lp_vault = @ + amount],
                           <<0, 0>>))

stake_lp(period, position, fl, t, user, amount) ==
    IF ~(position.owner = DefaultPubkey \/ position.owner = user)
    THEN FarmReject(period, position, fl, "Unauthorized")
    ELSE IF ~(amount > 0) THEN FarmReject(period, position, fl, "ZeroAmount")
    ELSE IF ~(t >= period.start_time) THEN FarmReject(period, position, fl, "FarmingNotStarted")
    ELSE IF ~StakeWindowOpen(period, t) THEN FarmReject(period, position, fl, "FarmingEnded")
    ELSE
    With(update_farming_rewards(period, t), LAMBDA updated :
      IF updated.err # "none" THEN FarmReject(period, position, fl, updated.err)
      ELSE
      With(calculate_pending_rewards(position, updated.val), LAMBDA pending :
        IF position.lp_staked > 0 /\ pending.err # "none"
        THEN FarmReject(period, position, fl, pending.err)
        ELSE IF fl.user_lp[user] < amount
        THEN FarmReject(period, position, fl, "InsufficientFunds")
        ELSE With(stake_lp_update(updated.val, position, fl, user, amount,
                                  IF position.lp_staked > 0 THEN pending.val ELSE 0),
                  LAMBDA o : IF o.err # "none"
                             THEN FarmReject(period, position, fl, o.err)
                             ELSE o)))

unstake_lp_update(period, position, fl, user, amount, pending) ==
    With(calculate_reward_debt(position.lp_staked - amount, period.acc_reward_per_share),
         LAMBDA debt :
           IF debt.err # "none" THEN FarmReject(period, position, fl, debt.err)
           ELSE FarmAccept([period EXCEPT !.total_staked = @ - amount],
                           [position EXCEPT !.lp_staked = @ - amount,
                                            !.reward_debt = debt.val,
                                            !.pending_rewards = @ + pending],
                           [fl EXCEPT !.user_lp[user] = @ + amount,
                                      !.staked_lp_vault = @ - amount],
                           <<0, 0>>))

unstake_lp(period, position, fl, t, user, amount) ==
    IF position.owner # user THEN FarmReject(period, position, fl, "Unauthorized")
    ELSE IF position.farming_period # PeriodKey
         THEN FarmReject(period, position, fl, "InvalidFarmingPeriod")
    ELSE IF ~(amount > 0) THEN FarmReject(period, position, fl, "ZeroAmount")
    ELSE IF ~(position.lp_staked >= amount)
         THEN FarmReject(period, position, fl, "InsufficientStake")
    ELSE
    With(update_farming_rewards(period, t), LAMBDA updated :
      IF updated.err # "none" THEN FarmReject(period, position, fl, updated.err)
      ELSE
      With(calculate_pending_rewards(position, updated.val), LAMBDA pending :
        IF pending.err # "none" THEN FarmReject(period, position, fl, pending.err)
        ELSE IF fl.staked_lp_vault < amount
        THEN FarmReject(period, position, fl, "InsufficientFunds")
        ELSE IF period.total_staked < amount
        THEN FarmReject(period, position, fl, "MathOverflow")
        ELSE With(unstake_lp_update(updated.val, position, fl, user, amount, pending.val),
                  LAMBDA o : IF o.err # "none"
                             THEN FarmReject(period, position, fl, o.err)
                             ELSE o)))

claim_farming_pay(period, position, fl, user, total_pending) ==
    With(calculate_reward_debt(position.lp_staked, period.acc_reward_per_share),
         LAMBDA debt :
           IF debt.err # "none" THEN FarmReject(period, position, fl, debt.err)
           ELSE FarmAccept([period EXCEPT !.distributed_rewards = @ + total_pending],
                           [position EXCEPT !.pending_rewards = 0,
                                            !.reward_debt = debt.val],
                           [fl EXCEPT !.farming_vault = @ - total_pending,
                                      !.user_reward[user] = @ + total_pending],
                           <<total_pending, 0>>))

(* A reward transfer that goes through whatever the vault holds *)
RewardVaultUnchecked(fl, amount) == TRUE

(* token::transfer from the farming vault fails when it holds less than    *)
(* the amount                                                              *)
RewardVaultCovers(fl, amount) == fl.farming_vault >= amount

claim_farming_rewards(period, position, fl, t, user) ==
    IF position.owner # user THEN FarmReject(period, position, fl, "Unauthorized")
    ELSE IF position.farming_period # PeriodKey
         THEN FarmReject(period, position, fl, "InvalidFarmingPeriod")
    ELSE
    With(update_farming_rewards(period, t), LAMBDA updated :
      IF updated.err # "none" THEN FarmReject(period, position, fl, updated.err)
      ELSE
      With(calculate_pending_rewards(position, updated.val), LAMBDA pending_new :
        IF pending_new.err # "none" THEN FarmReject(period, position, fl, pending_new.err)
        ELSE IF ~(position.pending_rewards + pending_new.val > 0)
        THEN FarmReject(RolledBack(period, updated.val), position, fl, "NoRewardsToClaim")
        ELSE IF ~RewardVaultCovers(fl, position.pending_rewards + pending_new.val)
        THEN FarmReject(period, position, fl, "InsufficientFunds")
        ELSE With(claim_farming_pay(updated.val, position, fl, user,
                                    position.pending_rewards + pending_new.val),
                  LAMBDA o : IF o.err # "none"
                             THEN FarmReject(period, position, fl, o.err)
                             ELSE o)))

----------------------------------------------------------------------------
(* State                                                                   *)

VARIABLES
    pool,     \* the StablePool account
    ledger,   \* token ledger: bags_vault, pump_vault amounts, LP held by users
    now,      \* Clock::get()?.unix_timestamp
    last,     \* the last instruction: its name, arguments, error and payout
    steps,    \* instructions and clock advances so far
    farming_period,  \* the FarmingPeriod account: None until it is created
    user_position,   \* the UserFarmingPosition account of every staker
    farm_ledger      \* the token accounts of the farm

farm_vars == <<farming_period, user_position, farm_ledger>>

vars == <<pool, ledger, now, last, steps, farming_period, user_position, farm_ledger>>

(* Bounds of the model *)
StartTime == 1000000
MaxLiqSteps == 3
MaxAmpSteps == 4
MaxAuthSteps == 4

Signers == {"admin", "alice"}
InitAmplifications == {19, 1000}

Stakers == {"alice", "bob"}

(* No farming period yet; the authority holds RewardFunds reward tokens    *)
(* and every staker StakerLp LP tokens (of those in ledger.user_lp)        *)
RewardFunds == 1000000
StakerLp == 300

NoFarm ==
    /\ farming_period = None
    /\ user_position = [u \in Stakers |-> NewPosition]
    /\ farm_ledger = [authority_reward |-> RewardFunds,
                      farming_vault |-> 0,
                      staked_lp_vault |-> 0,
                      user_lp |-> [u \in Stakers |-> StakerLp],
                      user_reward |-> [u \in Stakers |-> 0]]

(* The pool as `initialize` (or create_pool followed by init_vaults)       *)
(* leaves it                                                               *)
InitialPool(authority, amplification) ==
    [authority |-> authority,
     amplification |-> amplification,
     initial_amplification |-> amplification,
     target_amplification |-> amplification,
     ramp_start_time |-> 0,
     ramp_stop_time |-> 0,
     swap_fee_bps |-> SWAP_FEE_BPS,
     admin_fee_percent |-> ADMIN_FEE_PERCENT,
     bags_balance |-> 0,
     pump_balance |-> 0,
     lp_supply |-> 0,
     admin_fees_bags |-> 0,
     admin_fees_pump |-> 0,
     paused |-> FALSE,
     pending_authority |-> None,
     authority_transfer_time |-> None,
     pending_amp_commit |-> None,
     amp_commit_time |-> None]

Init ==
    /\ \E a \in InitAmplifications :
          /\ AmplificationInRange(a)
          /\ pool = InitialPool("admin", a)
          /\ last = [op |-> "initialize", args |-> <<a>>, err |-> "none", out |-> <<0, 0>>]
    /\ ledger = [bags_vault |-> 0, pump_vault |-> 0, user_lp |-> 0]
    /\ now = StartTime
    /\ steps = 0
    /\ NoFarm

(* One instruction with outcome o: committed when it succeeds, rolled back *)
(* when it fails                                                           *)
Apply(op, args, o, bound) ==
    /\ steps < bound
    /\ pool' = o.pool
    /\ ledger' = o.ledger
    /\ last' = [op |-> op, args |-> args, err |-> o.err, out |-> o.out]
    /\ steps' = steps + 1
    /\ UNCHANGED <<now, farm_vars>>

(* The clock advances between instructions *)
Tick(dts, bound) ==
    /\ steps < bound
    /\ \E dt \in dts : now' = now + dt
    /\ last' = [op |-> "tick", args |-> <<>>, err |-> "none", out |-> <<0, 0>>]
    /\ steps' = steps + 1
    /\ UNCHANGED <<pool, ledger, farm_vars>>

----------------------------------------------------------------------------
(* Liquidity, swap and migration instructions                              *)

DepositAmounts == {0, MIN_INITIAL_DEPOSIT - 1, MIN_INITIAL_DEPOSIT}
SingleAmounts == {MIN_SWAP_AMOUNT - 1, MIN_INITIAL_DEPOSIT}
TradeAmounts == {MIN_SWAP_AMOUNT - 1, 10000000}
MigrateAmounts == {MIN_SWAP_AMOUNT - 1, 1000000, 1234567}
BurnAmounts == {0, 50000000}
FeeChoices == {0, 100, 101}

AddLiquidity(bound) ==
    \E a \in DepositAmounts, b \in DepositAmounts :
      \E m \in {0, a + b} :
        Apply("add_liquidity", <<a, b, m>>, add_liquidity(pool, ledger, now, a, b, m), bound)

(* floor(balance * lp_amount / lp_supply), 0 for a pool without supply *)
ProportionalShare(balance, lp_amount, lp_supply) ==
    IF lp_supply = 0 THEN 0 ELSE ToInt(MulDiv(balance, lp_amount, lp_supply))

(* The minimum payouts a withdrawal of lp names: none, the proportional    *)
(* amounts before the exit fee, or one unit of PUMP more than that         *)
RemoveMinimums(p, lp) ==
    {<<0, 0>>,
     <<ProportionalShare(p.bags_balance, lp, p.lp_supply),
       ProportionalShare(p.pump_balance, lp, p.lp_supply)>>,
     <<0, ProportionalShare(p.pump_balance, lp, p.lp_supply) + 1>>}

RemoveLiquidity(bound) ==
    \E lp \in BurnAmounts \cup {ledger.user_lp, ledger.user_lp + 1} :
      \E m \in RemoveMinimums(pool, lp) :
        Apply("remove_liquidity", <<lp, m[1], m[2]>>,
              remove_liquidity(pool, ledger, lp, m[1], m[2]), bound)

(* The least min_lp_amount a single-sided deposit of amount a into pool p  *)
(* may name: 95% of the LP it expects, 0 for a first deposit               *)
SingleSidedFloor(p, a) ==
    IF p.lp_supply > 0 /\ p.bags_balance + p.pump_balance > 0
    THEN MinAllowed(ToInt(MulDiv(a, p.lp_supply, p.bags_balance + p.pump_balance)))
    ELSE 0

AddLiquiditySingleSided(bound) ==
    \E a \in SingleAmounts, is_bags \in BOOLEAN, mint \in {"bags", "pump"} :
      \E m \in {0, SingleSidedFloor(pool, a), a} :
        Apply("add_liquidity_single_sided", <<a, is_bags, mint, m>>,
              add_liquidity_single_sided(pool, ledger, a, is_bags, mint, m), bound)

Swap(bound) ==
    \E a \in TradeAmounts, dir \in BOOLEAN, late \in BOOLEAN :
      \E m \in {0, MinAllowed(a) - 1, MinAllowed(a), a} :
        LET deadline == IF late THEN now - 1 ELSE now
        IN  Apply(IF dir THEN "swap_bags_to_pump" ELSE "swap_pump_to_bags",
                  <<a, m, deadline>>, swap(pool, ledger, now, a, m, deadline, dir), bound)

Migrate(bound) ==
    \E a \in MigrateAmounts, dir \in BOOLEAN, late \in BOOLEAN :
      \E m \in {0, MinAllowed(a) - 1, MinAllowed(a), a} :
        LET deadline == IF late THEN now - 1 ELSE now
        IN  Apply(IF dir THEN "migrate_bags_to_pump" ELSE "migrate_pump_to_bags",
                  <<a, m, deadline>>, migrate(pool, ledger, now, a, m, deadline, dir), bound)

SetPaused(bound) ==
    \E s \in Signers, b \in BOOLEAN :
        Apply("set_paused", <<s, b>>, set_paused(pool, ledger, s, b), bound)

UpdateSwapFee(bound) ==
    \E s \in Signers, f \in FeeChoices :
        Apply("update_swap_fee", <<s, f>>, update_swap_fee(pool, ledger, s, f), bound)

WithdrawAdminFees(bound) ==
    \E s \in Signers :
        Apply("withdraw_admin_fees", <<s>>, withdraw_admin_fees(pool, ledger, s), bound)

NextLiq ==
    \/ AddLiquidity(MaxLiqSteps)
    \/ RemoveLiquidity(MaxLiqSteps)
    \/ AddLiquiditySingleSided(MaxLiqSteps)
    \/ Swap(MaxLiqSteps)
    \/ Migrate(MaxLiqSteps)
    \/ SetPaused(MaxLiqSteps)

(* The liquidity side of the pool: deposits, withdrawals, trades, pause *)
SpecLiq == Init /\ [][NextLiq]_vars

----------------------------------------------------------------------------
(* The amplification ramp                                                  *)

(* <<target_amplification, ramp_duration, salt>> values the admin commits  *)
(* to and reveals                                                          *)
CommitChoices == {<<2000, 100000, 7>>, <<500, MIN_RAMP_DURATION, 7>>, <<1, MIN_RAMP_DURATION, 7>>}
RevealChoices ==
    CommitChoices \cup {<<2000, 100000, 8>>, <<MAX_AMPLIFICATION + 1, MIN_RAMP_DURATION, 7>>,
                        <<0, MIN_RAMP_DURATION, 7>>, <<2000, MIN_RAMP_DURATION - 1, 7>>}
AmpTicks == {AMP_COMMIT_DELAY - 1, AMP_COMMIT_DELAY, 50000, 100000}

CommitAmpRamp(bound) ==
    \E s \in Signers, c \in CommitChoices :
        Apply("commit_amp_ramp", <<s, Hash(c[1], c[2], c[3])>>,
              commit_amp_ramp(pool, ledger, now, s, Hash(c[1], c[2], c[3])), bound)

RampAmplification(bound) ==
    \E s \in Signers, r \in RevealChoices :
        Apply("ramp_amplification", <<s, r[1], r[2], r[3]>>,
              ramp_amplification(pool, ledger, now, s, r[1], r[2], r[3]), bound)

StopRampAmplification(bound) ==
    \E s \in Signers :
        Apply("stop_ramp_amplification", <<s>>,
              stop_ramp_amplification(pool, ledger, now, s), bound)

NextAmp ==
    \/ CommitAmpRamp(MaxAmpSteps)
    \/ RampAmplification(MaxAmpSteps)
    \/ StopRampAmplification(MaxAmpSteps)
    \/ Tick(AmpTicks, MaxAmpSteps)

(* The commit-reveal and the ramp of the amplification coefficient *)
SpecAmp == Init /\ [][NextAmp]_vars

----------------------------------------------------------------------------
(* The authority handoff and the other admin instructions                  *)

Keys == Signers \cup {"bob", DefaultPubkey}
AuthTicks == {AUTHORITY_TIMELOCK - 1, 1}

InitiateAuthorityTransfer(bound) ==
    \E s \in Signers, k \in Keys :
        Apply("initiate_authority_transfer", <<s, k>>,
              initiate_authority_transfer(pool, ledger, now, s, k), bound)

CompleteAuthorityTransfer(bound) ==
    \E s \in Keys :
        Apply("complete_authority_transfer", <<s>>,
              complete_authority_transfer(pool, ledger, now, s), bound)

CancelAuthorityTransfer(bound) ==
    \E s \in Signers :
        Apply("cancel_authority_transfer", <<s>>,
              cancel_authority_transfer(pool, ledger, s), bound)

NextAuth ==
    \/ InitiateAuthorityTransfer(MaxAuthSteps)
    \/ CompleteAuthorityTransfer(MaxAuthSteps)
    \/ CancelAuthorityTransfer(MaxAuthSteps)
    \/ SetPaused(MaxAuthSteps)
    \/ UpdateSwapFee(MaxAuthSteps)
    \/ WithdrawAdminFees(MaxAuthSteps)
    \/ Tick(AuthTicks, MaxAuthSteps)

(* The admin side of the pool: the timelocked handoff of the authority *)
SpecAuth == Init /\ [][NextAuth]_vars

----------------------------------------------------------------------------
(* A shortfall of the external token ledger                                *)

(* The vault accounts belong to the token program: the handlers read their *)
(* amounts as given.  VaultShortfall is the ledger reporting one vault     *)
(* below the tracked balance of its asset.                                 *)
MaxVaultSteps == 3

VaultShortfall(bound) ==
    /\ steps < bound
    /\ \E is_bags \in BOOLEAN, missing \in {1} :
          /\ (IF is_bags THEN pool.bags_balance ELSE pool.pump_balance) >= missing
          /\ ledger' = IF is_bags
                       THEN [ledger EXCEPT !.bags_vault = pool.bags_balance - missing]
                       ELSE [ledger EXCEPT !.pump_vault = pool.pump_balance - missing]
          /\ last' = [op |-> "vault_shortfall", args |-> <<is_bags, missing>>,
                      err |-> "none", out |-> <<0, 0>>]
    /\ steps' = steps + 1
    /\ UNCHANGED <<pool, now, farm_vars>>

NextVault ==
    \/ AddLiquidity(MaxVaultSteps)
    \/ AddLiquiditySingleSided(MaxVaultSteps)
    \/ Swap(MaxVaultSteps)
    \/ Migrate(MaxVaultSteps)
    \/ VaultShortfall(MaxVaultSteps)

(* Deposits and trades against a token ledger that may fall short *)
SpecVault == Init /\ [][NextVault]_vars

----------------------------------------------------------------------------
(* The admin fees of a funded pool                                         *)

MaxFeeSteps == 3

(* The pool after `initialize` and a first deposit of MIN_INITIAL_DEPOSIT  *)
(* of each asset                                                           *)
InitFunded ==
    /\ \E a \in InitAmplifications :
          With(add_liquidity(InitialPool("admin", a),
                             [bags_vault |-> 0, pump_vault |-> 0, user_lp |-> 0],
                             StartTime, MIN_INITIAL_DEPOSIT, MIN_INITIAL_DEPOSIT, 0),
               LAMBDA o :
                 /\ pool = o.pool
                 /\ ledger = o.ledger
                 /\ last = [op |-> "add_liquidity",
                            args |-> <<MIN_INITIAL_DEPOSIT, MIN_INITIAL_DEPOSIT, 0>>,
                            err |-> o.err, out |-> o.out])
    /\ now = StartTime
    /\ steps = 0
    /\ NoFarm

(* Anyone may transfer tokens to a vault account: the token program adds   *)
(* them to the vault without the pool taking part                          *)
VaultDonation(bound) ==
    /\ steps < bound
    /\ \E is_bags \in BOOLEAN, amount \in {1} :
          /\ ledger' = IF is_bags
                       THEN [ledger EXCEPT !.bags_vault = @ + amount]
                       ELSE [ledger EXCEPT !.pump_vault = @ + amount]
          /\ last' = [op |-> "vault_donation", args |-> <<is_bags, amount>>,
                      err |-> "none", out |-> <<0, 0>>]
    /\ steps' = steps + 1
    /\ UNCHANGED <<pool, now, farm_vars>>

NextFees ==
    \/ Swap(MaxFeeSteps)
    \/ Migrate(MaxFeeSteps)
    \/ WithdrawAdminFees(MaxFeeSteps)
    \/ VaultDonation(MaxFeeSteps)
    \/ VaultShortfall(MaxFeeSteps)

(* Trades against a funded pool, and the admin collecting the fees *)
SpecFees == InitFunded /\ [][NextFees]_vars

----------------------------------------------------------------------------
(* A withdrawal and the deposit of what it paid                            *)

MaxRoundSteps == 3

RoundTripBurns == {50000000, 100000000}

Withdraw(bound) ==
    \E lp \in RoundTripBurns :
        Apply("remove_liquidity", <<lp, 0, 0>>, remove_liquidity(pool, ledger, lp, 0, 0), bound)

(* The user deposits exactly the two amounts the withdrawal just paid *)
Redeposit(bound) ==
    /\ last.op = "remove_liquidity"
    /\ last.err = "none"
    /\ Apply("add_liquidity", <<last.out[1], last.out[2], 0>>,
             add_liquidity(pool, ledger, now, last.out[1], last.out[2], 0), bound)

NextRound ==
    \/ Swap(MaxRoundSteps)
    \/ Migrate(MaxRoundSteps)
    \/ Withdraw(MaxRoundSteps)
    \/ Redeposit(MaxRoundSteps)

(* Trades against a funded pool, then a withdrawal that is put back *)
SpecRound == InitFunded /\ [][NextRound]_vars

----------------------------------------------------------------------------
(* Deposits after a change of the swap fee                                 *)

MaxRateSteps == 2

NextRate ==
    \/ UpdateSwapFee(MaxRateSteps)
    \/ AddLiquidity(MaxRateSteps)

(* The admin sets the swap fee of a funded pool, users deposit *)
SpecRate == InitFunded /\ [][NextRate]_vars

----------------------------------------------------------------------------
(* Farming: one period, created by the authority, and two stakers          *)

MaxFarmSteps == 6

FarmTicks == {1000, MIN_FARMING_DURATION}
FarmStartDelays == {0, 1000}
FarmDurations == {MIN_FARMING_DURATION - 1, MIN_FARMING_DURATION}
FarmRewards == {0, MIN_FARMING_DURATION - 1, 10 * MIN_FARMING_DURATION}
StakeAmounts == {0, 100, 150}

(* One farming instruction of a user with outcome o *)
ApplyFarm(op, args, user, o, bound) ==
    /\ steps < bound
    /\ farming_period' = Some(o.period)
    /\ user_position' = [user_position EXCEPT ![user] = o.position]
    /\ farm_ledger' = o.ledger
    /\ last' = [op |-> op, args |-> args, err |-> o.err, out |-> o.out]
    /\ steps' = steps + 1
    /\ UNCHANGED <<pool, ledger, now>>

(* The period account is created by the instruction (init): the model      *)
(* follows the first period that is created                                *)
CreateFarmingPeriod(bound) ==
    /\ steps < bound
    /\ farming_period = None
    /\ \E signer \in Signers, delay \in FarmStartDelays :
       \E duration \in FarmDurations, total_rewards \in FarmRewards :
          With(create_farming_period(pool, farm_ledger, now, signer, now + delay,
                                     now + delay + duration, total_rewards),
               LAMBDA o :
                 /\ farming_period' = o.period
                 /\ farm_ledger' = o.ledger
                 /\ last' = [op |-> "create_farming_period",
                             args |-> <<signer, now + delay, now + delay + duration,
                                        total_rewards>>,
                             err |-> o.err, out |-> o.out])
    /\ steps' = steps + 1
    /\ UNCHANGED <<pool, ledger, now, user_position>>

StakeLp(bound) ==
    /\ farming_period # None
    /\ \E user \in Stakers, amount \in StakeAmounts :
          ApplyFarm("stake_lp", <<user, amount>>, user,
                    stake_lp(farming_period[1], user_position[user], farm_ledger, now,
                             user, amount),
                    bound)

UnstakeLp(bound) ==
    /\ farming_period # None
    /\ \E user \in Stakers, amount \in StakeAmounts :
          ApplyFarm("unstake_lp", <<user, amount>>, user,
                    unstake_lp(farming_period[1], user_position[user], farm_ledger, now,
                               user, amount),
                    bound)

ClaimFarmingRewards(bound) ==
    /\ farming_period # None
    /\ \E user \in Stakers :
          ApplyFarm("claim_farming_rewards", <<user>>, user,
                    claim_farming_rewards(farming_period[1], user_position[user],
                                          farm_ledger, now, user),
                    bound)

NextFarm ==
    \/ CreateFarmingPeriod(MaxFarmSteps)
    \/ StakeLp(MaxFarmSteps)
    \/ UnstakeLp(MaxFarmSteps)
    \/ ClaimFarmingRewards(MaxFarmSteps)
    \/ Tick(FarmTicks, MaxFarmSteps)

SpecFarm == InitFunded /\ [][NextFarm]_vars

----------------------------------------------------------------------------
(* Farming with small stakes: the payouts of a period that is staked from  *)
(* its first second on                                                     *)

MaxPayoutSteps == 6

PayoutTicks == {1, MIN_FARMING_DURATION}
SmallStakes == {1, 3}
FirstStake == 4

(* A funded pool whose authority created a period of MIN_FARMING_DURATION  *)
(* seconds and 10 rewards per second that starts at once, and in which     *)
(* alice staked FirstStake LP in the same second                           *)
InitStaked ==
    /\ \E a \in InitAmplifications :
          With(add_liquidity(InitialPool("admin", a),
                             [bags_vault |-> 0, pump_vault |-> 0, user_lp |-> 0],
                             StartTime, MIN_INITIAL_DEPOSIT, MIN_INITIAL_DEPOSIT, 0),
               LAMBDA funded :
          With(create_farming_period(
                   funded.pool,
                   [authority_reward |-> RewardFunds,
                    farming_vault |-> 0,
                    staked_lp_vault |-> 0,
                    user_lp |-> [u \in Stakers |-> StakerLp],
                    user_reward |-> [u \in Stakers |-> 0]],
                   StartTime, "admin", StartTime, StartTime + MIN_FARMING_DURATION,
                   10 * MIN_FARMING_DURATION),
               LAMBDA created :
          With(stake_lp(created.period[1], NewPosition, created.ledger, StartTime,
                        "alice", FirstStake),
               LAMBDA o :
                 /\ funded.err = "none" /\ created.err = "none" /\ o.err = "none"
                 /\ pool = funded.pool
                 /\ ledger = funded.ledger
                 /\ farming_period = Some(o.period)
                 /\ user_position = [u \in Stakers |->
                                        IF u = "alice" THEN o.position ELSE NewPosition]
                 /\ farm_ledger = o.ledger
                 /\ last = [op |-> "stake_lp", args |-> <<"alice", FirstStake>>,
                            err |-> o.err, out |-> o.out])))
    /\ now = StartTime
    /\ steps = 0

StakeSmall(bound) ==
    \E user \in Stakers, amount \in SmallStakes :
        ApplyFarm("stake_lp", <<user, amount>>, user,
                  stake_lp(farming_period[1], user_position[user], farm_ledger, now,
                           user, amount),
                  bound)

UnstakeSmall(bound) ==
    \E user \in Stakers, amount \in SmallStakes :
        ApplyFarm("unstake_lp", <<user, amount>>, user,
                  unstake_lp(farming_period[1], user_position[user], farm_ledger, now,
                             user, amount),
                  bound)

NextPayout ==
    \/ StakeSmall(MaxPayoutSteps)
    \/ UnstakeSmall(MaxPayoutSteps)
    \/ ClaimFarmingRewards(MaxPayoutSteps)
    \/ Tick(PayoutTicks, MaxPayoutSteps)

SpecPayout == InitStaked /\ [][NextPayout]_vars

(* The same period followed over fewer instructions *)
MaxStakeSteps == 5

NextStake ==
    \/ StakeSmall(MaxStakeSteps)
    \/ UnstakeSmall(MaxStakeSteps)
    \/ ClaimFarmingRewards(MaxStakeSteps)
    \/ Tick(PayoutTicks, MaxStakeSteps)

SpecStake == InitStaked /\ [][NextStake]_vars

----------------------------------------------------------------------------
(* Admin instructions on a pool whose amplification is ramping             *)

MaxRampSteps == 4

(* The pool after `initialize`, a commit at StartTime and its reveal       *)
(* AMP_COMMIT_DELAY later: a ramp up (1000 -> 2000) or down (1000 -> 500,  *)
(* 19 -> 1) has just started                                               *)
InitRamping ==
    /\ \E a \in InitAmplifications, c \in CommitChoices :
          With(commit_amp_ramp(InitialPool("admin", a),
                               [bags_vault |-> 0, pump_vault |-> 0, user_lp |-> 0],
                               StartTime, "admin", Hash(c[1], c[2], c[3])),
               LAMBDA committed :
          With(ramp_amplification(committed.pool, committed.ledger,
                                  StartTime + AMP_COMMIT_DELAY, "admin", c[1], c[2], c[3]),
               LAMBDA o :
                 /\ o.err = "none"
                 /\ pool = o.pool
                 /\ ledger = o.ledger
                 /\ last = [op |-> "ramp_amplification",
                            args |-> <<"admin", c[1], c[2], c[3]>>,
                            err |-> o.err, out |-> o.out]))
    /\ now = StartTime + AMP_COMMIT_DELAY
    /\ steps = 0
    /\ NoFarm

(* commit_amp_ramp stores the hash as given: the admin can commit to any   *)
(* values, in range or not                                                 *)
CommitAnyRamp(bound) ==
    \E s \in Signers, c \in RevealChoices :
        Apply("commit_amp_ramp", <<s, Hash(c[1], c[2], c[3])>>,
              commit_amp_ramp(pool, ledger, now, s, Hash(c[1], c[2], c[3])), bound)

NextRamp ==
    \/ CommitAnyRamp(MaxRampSteps)
    \/ RampAmplification(MaxRampSteps)
    \/ StopRampAmplification(MaxRampSteps)
    \/ Tick(AmpTicks, MaxRampSteps)

SpecRamp == InitRamping /\ [][NextRamp]_vars

----------------------------------------------------------------------------
(* The admin instructions across a handoff of the authority                *)

MaxGateSteps == 4

GateTicks == {AMP_COMMIT_DELAY, AUTHORITY_TIMELOCK}

(* A funded pool after one swap: it has admin fees to withdraw *)
InitTraded ==
    /\ \E a \in InitAmplifications :
          With(add_liquidity(InitialPool("admin", a),
                             [bags_vault |-> 0, pump_vault |-> 0, user_lp |-> 0],
                             StartTime, MIN_INITIAL_DEPOSIT, MIN_INITIAL_DEPOSIT, 0),
               LAMBDA funded :
          With(swap(funded.pool, funded.ledger, StartTime, 10000000,
                    MinAllowed(10000000), StartTime, TRUE),
               LAMBDA o :
                 /\ pool = o.pool
                 /\ ledger = o.ledger
                 /\ last = [op |-> "swap_bags_to_pump",
                            args |-> <<10000000, MinAllowed(10000000), StartTime>>,
                            err |-> o.err, out |-> o.out]))
    /\ now = StartTime
    /\ steps = 0
    /\ NoFarm

NextGate ==
    \/ CommitAmpRamp(MaxGateSteps)
    \/ RampAmplification(MaxGateSteps)
    \/ StopRampAmplification(MaxGateSteps)
    \/ UpdateSwapFee(MaxGateSteps)
    \/ SetPaused(MaxGateSteps)
    \/ WithdrawAdminFees(MaxGateSteps)
    \/ InitiateAuthorityTransfer(MaxGateSteps)
    \/ CompleteAuthorityTransfer(MaxGateSteps)
    \/ CancelAuthorityTransfer(MaxGateSteps)
    \/ Tick(GateTicks, MaxGateSteps)

SpecGate == InitTraded /\ [][NextGate]_vars

----------------------------------------------------------------------------
(* Rejected instructions: the reveal of an amplification ramp and the      *)
(* farming instructions, every one of which can fail after its handler has *)
(* written to an account                                                   *)

MaxFailSteps == 5

FailTicks == {AMP_COMMIT_DELAY, MIN_FARMING_DURATION}

NextFail ==
    \/ CommitAmpRamp(MaxFailSteps)
    \/ RampAmplification(MaxFailSteps)
    \/ CreateFarmingPeriod(MaxFailSteps)
    \/ StakeLp(MaxFailSteps)
    \/ UnstakeLp(MaxFailSteps)
    \/ ClaimFarmingRewards(MaxFailSteps)
    \/ Tick(FailTicks, MaxFailSteps)

SpecFail == InitFunded /\ [][NextFail]_vars

----------------------------------------------------------------------------
(* The invariant as a function of the balances                             *)

MaxInvariantSteps == 1

(* u64 balances as u128 values: 1, 2, 1000, 10^8, 2^31 - 1, 6 * 10^16,     *)
(* 7 * 10^16 and u64::MAX                                                  *)
InvariantBalances ==
    {FromInt(1), FromInt(2), FromInt(1000), FromInt(100000000), FromInt(2147483647),
     <<0, 0, 0, 0, 0, 60>>, <<0, 0, 0, 0, 0, 70>>,
     <<615, 551, 709, 73, 744, 446, 18>>}
InvariantAmplifications == {MIN_AMPLIFICATION, 19, 1000, MAX_AMPLIFICATION}

CalculateD(bound) ==
    /\ steps < bound
    /\ \E x \in InvariantBalances, y \in InvariantBalances, a \in InvariantAmplifications :
          With(calculate_d_u128(x, y, a), LAMBDA s :
              last' = [op |-> "calculate_d", args |-> <<x, y, a>>,
                       err |-> IF s.done THEN s.err ELSE "ConvergenceFailed",
                       out |-> <<s.v, 0>>])
    /\ steps' = steps + 1
    /\ UNCHANGED <<pool, ledger, now, farm_vars>>

NextInvariant == CalculateD(MaxInvariantSteps)

SpecInvariant == Init /\ [][NextInvariant]_vars

----------------------------------------------------------------------------
(* The pricing of a swap as a function of its input                        *)

(* calculate_swap_output and the fee arithmetic of the swap handlers are   *)
(* pure: SpecQuote draws the tracked balances, the amplification and the   *)
(* fee from the sets below and prices one input after another against the  *)
(* same pool.  The fields the pricing does not read are as `initialize`    *)
(* leaves them.                                                            *)
MaxQuoteSteps == 1

QuoteBalances == {0, 1000, 100000000, 1000000000}
QuoteAmplifications == {MIN_AMPLIFICATION, 1000, MAX_AMPLIFICATION}
QuoteFees == {SWAP_FEE_BPS, 100}
QuoteAmounts == {0, 1, 1000, 1001, 10000000, 10000001, 500000000}

(* What the swap handlers compute from the gross output: <<net, gross>> *)
SwapQuoteOf(gross, swap_fee_bps) ==
    IF gross.err # "none" THEN [err |-> gross.err, out |-> <<0, 0>>]
    ELSE [err |-> "none",
          out |-> <<gross.val - SwapFee(gross.val, swap_fee_bps), gross.val>>]

SwapQuote(p, t, amount_in, bags_to_pump) ==
    SwapQuoteOf(calculate_swap_output(p.bags_balance, p.pump_balance, amount_in,
                                      get_current_amplification(p, t), bags_to_pump),
                p.swap_fee_bps)

InitQuote ==
    /\ \E a \in QuoteAmplifications, f \in QuoteFees :
       \E bags \in QuoteBalances, pump \in QuoteBalances :
          /\ pool = [InitialPool("admin", a) EXCEPT !.swap_fee_bps = f,
                                                    !.bags_balance = bags,
                                                    !.pump_balance = pump]
          /\ ledger = [bags_vault |-> bags, pump_vault |-> pump, user_lp |-> 0]
          /\ last = [op |-> "initialize", args |-> <<a>>, err |-> "none", out |-> <<0, 0>>]
    /\ now = StartTime
    /\ steps = 0
    /\ NoFarm

Quote(bound) ==
    /\ steps < bound
    /\ \E a \in QuoteAmounts, dir \in BOOLEAN :
          With(SwapQuote(pool, now, a, dir), LAMBDA q :
              last' = [op |-> "calculate_swap_output", args |-> <<a, dir>>,
                       err |-> q.err, out |-> q.out])
    /\ steps' = steps + 1
    /\ UNCHANGED <<pool, ledger, now, farm_vars>>

NextQuote == Quote(MaxQuoteSteps)

SpecQuote == InitQuote /\ [][NextQuote]_vars

----------------------------------------------------------------------------
(* Properties                                                              *)

(* C1: remove_liquidity is never blocked by the pause flag.  In every      *)
(* reachable state, whatever set_paused calls came before, a               *)
(* remove_liquidity call that succeeds on the pool with paused = FALSE     *)
(* succeeds on the same pool with paused = TRUE, with the same payouts,    *)
(* the same ledger and the same pool fields.                               *)
C1_RemoveIgnoresPause ==
    \A lp \in BurnAmounts \cup {ledger.user_lp}, m \in {0, 1} :
        LET open == remove_liquidity([pool EXCEPT !.paused = FALSE], ledger, lp, m, m)
            shut == remove_liquidity([pool EXCEPT !.paused = TRUE], ledger, lp, m, m)
        IN  open.err = "none"
            => /\ shut.err = "none"
               /\ shut.out = open.out
               /\ shut.ledger = open.ledger
               /\ shut.pool = [open.pool EXCEPT !.paused = TRUE]

(* A withdrawal has paid out of a paused pool *)
C1_Witness ==
    /\ last.op = "remove_liquidity"
    /\ last.err = "none"
    /\ pool.paused
    /\ last.out[1] > 0
    /\ last.out[2] > 0

GatedOps ==
    {"add_liquidity", "add_liquidity_single_sided", "swap_bags_to_pump",
     "swap_pump_to_bags", "migrate_bags_to_pump", "migrate_pump_to_bags"}

(* C2: while paused = TRUE every add_liquidity, add_liquidity_single_sided,*)
(* swap_bags_to_pump, swap_pump_to_bags, migrate_bags_to_pump and          *)
(* migrate_pump_to_bags call is rejected with PoolPaused and leaves the    *)
(* pool (balances, lp_supply, admin fees) and the ledger unchanged.        *)
C2_PausedRejects ==
    [][(pool.paused /\ last'.op \in GatedOps)
       => (last'.err = "PoolPaused" /\ pool' = pool /\ ledger' = ledger)]_vars

(* A gated call has been rejected by a paused pool that holds liquidity *)
C2_Witness ==
    /\ last.op \in GatedOps
    /\ last.err = "PoolPaused"
    /\ pool.paused
    /\ pool.lp_supply > 0

(* The arguments <<signer, target, duration, salt>> of a ramp_amplification *)
(* call pass the checks that precede the commit-reveal: the signer is the  *)
(* authority (account constraint), the target is in range, the duration is *)
(* long enough                                                             *)
RevealWellFormed(p, args) ==
    /\ AdminGate(p, args[1])
    /\ AmplificationInRange(args[2])
    /\ RampDurationOk(args[3])

CommitRevealErrors ==
    {"NoAmpCommitPending", "AmpCommitDelayNotPassed", "AmpCommitMismatch"}

(* C3: a ramp starts only through a completed commit-reveal.  A successful *)
(* commit_amp_ramp records its hash and the current time (a re-commit      *)
(* overwrites both), and nothing but a commit or a successful reveal       *)
(* changes them.  ramp_amplification(target, duration, salt) succeeds only *)
(* if a commit is pending, now >= commit time + AMP_COMMIT_DELAY and       *)
(* hash(target, duration, salt) is the pending commit.  A call whose       *)
(* arguments are well-formed is otherwise rejected with NoAmpCommitPending,*)
(* AmpCommitDelayNotPassed or AmpCommitMismatch respectively, and a call   *)
(* rejected with one of these leaves the pool (the ramp schedule) as it is.*)
C3_CommitReveal ==
    [][/\ (last'.op = "commit_amp_ramp" /\ last'.err = "none")
          => /\ pool'.pending_amp_commit = Some(last'.args[2])
             /\ pool'.amp_commit_time = Some(now)
       /\ (pool'.amp_commit_time # pool.amp_commit_time
             \/ pool'.pending_amp_commit # pool.pending_amp_commit)
          => /\ last'.op \in {"commit_amp_ramp", "ramp_amplification"}
             /\ last'.err = "none"
       /\ last'.op = "ramp_amplification"
          => /\ last'.err = "none"
                => /\ pool.pending_amp_commit # None
                   /\ pool.amp_commit_time # None
                   /\ now >= pool.amp_commit_time[1] + AMP_COMMIT_DELAY
                   /\ pool.pending_amp_commit[1]
                        = Hash(last'.args[2], last'.args[3], last'.args[4])
             /\ last'.err \in CommitRevealErrors => pool' = pool
             /\ RevealWellFormed(pool, last'.args)
                => /\ pool.pending_amp_commit = None
                      => last'.err = "NoAmpCommitPending"
                   /\ (/\ pool.pending_amp_commit # None
                       /\ now < pool.amp_commit_time[1] + AMP_COMMIT_DELAY)
                      => last'.err = "AmpCommitDelayNotPassed"
                   /\ (/\ pool.pending_amp_commit # None
                       /\ now >= pool.amp_commit_time[1] + AMP_COMMIT_DELAY
                       /\ pool.pending_amp_commit[1]
                            # Hash(last'.args[2], last'.args[3], last'.args[4]))
                      => last'.err = "AmpCommitMismatch"]_vars

(* A reveal has started a ramp *)
C3_Witness ==
    /\ last.op = "ramp_amplification"
    /\ last.err = "none"
    /\ pool.ramp_start_time = now
    /\ pool.ramp_stop_time > now
    /\ pool.target_amplification = last.args[2]

(* C4: a commit is consumed by its reveal.  A successful ramp_amplification*)
(* clears the pending commit and the commit time; while no commit is       *)
(* pending, a well-formed ramp_amplification (the same reveal again        *)
(* included) is rejected with NoAmpCommitPending.                          *)
C4_CommitConsumed ==
    [][/\ (last'.op = "ramp_amplification" /\ last'.err = "none")
          => /\ pool'.pending_amp_commit = None
             /\ pool'.amp_commit_time = None
       /\ (/\ last.op = "ramp_amplification"
           /\ last.err = "none"
           /\ last'.op = "ramp_amplification"
           /\ last'.args = last.args)
          => last'.err = "NoAmpCommitPending"
       /\ (/\ last'.op = "ramp_amplification"
           /\ pool.pending_amp_commit = None
           /\ RevealWellFormed(pool, last'.args))
          => last'.err = "NoAmpCommitPending"]_vars

(* The reveal that started the ramp has been repeated and rejected *)
C4_Witness ==
    /\ last.op = "ramp_amplification"
    /\ last.err = "NoAmpCommitPending"
    /\ pool.ramp_stop_time # 0
    /\ pool.ramp_start_time = now
    /\ last.args[1] = pool.authority
    /\ last.args[2] = pool.target_amplification
    /\ last.args[3] = pool.ramp_stop_time - pool.ramp_start_time

(* C5: every accepted ramp has ramp_duration >= MIN_RAMP_DURATION, its     *)
(* target T in [MIN_AMPLIFICATION, MAX_AMPLIFICATION], and T within a      *)
(* factor of MAX_AMP_CHANGE of the amplification C in effect at reveal     *)
(* time in both directions: T <= 10 * C and C <= 10 * T.                   *)
C5_RampConstraints ==
    [][(last'.op = "ramp_amplification" /\ last'.err = "none")
       => /\ last'.args[3] >= MIN_RAMP_DURATION
          /\ last'.args[2] >= MIN_AMPLIFICATION
          /\ last'.args[2] <= MAX_AMPLIFICATION
          /\ last'.args[2] <= MAX_AMP_CHANGE * get_current_amplification(pool, now)
          /\ get_current_amplification(pool, now) <= MAX_AMP_CHANGE * last'.args[2]]_vars

(* C6: outside the ramp window get_current_amplification returns the ramp  *)
(* endpoints: target_amplification if no ramp is scheduled or              *)
(* now >= ramp_stop_time, initial_amplification if a ramp is scheduled and *)
(* now <= ramp_start_time.                                                 *)
C6_EndpointsOutsideWindow ==
    /\ (pool.ramp_stop_time = 0 \/ now >= pool.ramp_stop_time)
       => get_current_amplification(pool, now) = pool.target_amplification
    /\ (pool.ramp_stop_time # 0 /\ now < pool.ramp_stop_time
          /\ now <= pool.ramp_start_time)
       => get_current_amplification(pool, now) = pool.initial_amplification

InsideRamp ==
    /\ pool.ramp_stop_time # 0
    /\ pool.ramp_start_time < now
    /\ now < pool.ramp_stop_time

(* C7: inside the ramp window get_current_amplification is                 *)
(* initial + (target - initial) * (now - start) / (stop - start) with      *)
(* integer division on the magnitude of the change, so that it lies        *)
(* between initial and target; initial 1000, target 2000 over 100000 s     *)
(* gives 1500 (+-1) at start + 50000.                                      *)
C7_LinearInsideWindow ==
    InsideRamp
    => /\ get_current_amplification(pool, now)
            = IF pool.target_amplification > pool.initial_amplification
              THEN pool.initial_amplification
                   + ((pool.target_amplification - pool.initial_amplification)
                        * (now - pool.ramp_start_time))
                     \div (pool.ramp_stop_time - pool.ramp_start_time)
              ELSE pool.initial_amplification
                   - ((pool.initial_amplification - pool.target_amplification)
                        * (now - pool.ramp_start_time))
                     \div (pool.ramp_stop_time - pool.ramp_start_time)
       /\ get_current_amplification(pool, now)
            >= Min(pool.initial_amplification, pool.target_amplification)
       /\ get_current_amplification(pool, now)
            <= Max(pool.initial_amplification, pool.target_amplification)
       /\ (/\ pool.initial_amplification = 1000
           /\ pool.target_amplification = 2000
           /\ pool.ramp_stop_time = pool.ramp_start_time + 100000
           /\ now = pool.ramp_start_time + 50000)
          => /\ get_current_amplification(pool, now) >= 1499
             /\ get_current_amplification(pool, now) <= 1501

(* Half-way through the ramp from 1000 to 2000 over 100000 s *)
C7_Witness ==
    /\ InsideRamp
    /\ pool.initial_amplification = 1000
    /\ pool.target_amplification = 2000
    /\ pool.ramp_stop_time = pool.ramp_start_time + 100000
    /\ now = pool.ramp_start_time + 50000
    /\ get_current_amplification(pool, now) = 1500

AuthorityOps ==
    {"initiate_authority_transfer", "complete_authority_transfer",
     "cancel_authority_transfer"}

(* C8: the authority changes only through the timelocked handoff.          *)
(* pool.authority changes only in a successful complete_authority_transfer *)
(* signed by the pending authority at now >= transfer time +               *)
(* AUTHORITY_TIMELOCK, the transfer time being that of the most recent     *)
(* successful initiate_authority_transfer.  complete_authority_transfer is *)
(* rejected with NoTransferPending when no transfer is pending (none       *)
(* initiated, or cancelled), with Unauthorized when the signer is not the  *)
(* pending authority, with TimelockNotExpired before the timelock is over. *)
C8_AuthorityHandoff ==
    [][/\ pool'.authority # pool.authority
          => /\ last'.op = "complete_authority_transfer"
             /\ last'.err = "none"
             /\ pool.pending_authority = Some(last'.args[1])
             /\ pool'.authority = last'.args[1]
             /\ pool.authority_transfer_time # None
             /\ now >= pool.authority_transfer_time[1] + AUTHORITY_TIMELOCK
       /\ (last'.op = "initiate_authority_transfer" /\ last'.err = "none")
          => /\ pool'.pending_authority = Some(last'.args[2])
             /\ pool'.authority_transfer_time = Some(now)
       /\ (last'.op = "cancel_authority_transfer" /\ last'.err = "none")
          => /\ pool'.pending_authority = None
             /\ pool'.authority_transfer_time = None
       /\ (pool'.authority_transfer_time # pool.authority_transfer_time
             \/ pool'.pending_authority # pool.pending_authority)
          => (last'.op \in AuthorityOps /\ last'.err = "none")
       /\ last'.op = "complete_authority_transfer"
          => /\ pool.pending_authority = None => last'.err = "NoTransferPending"
             /\ (/\ pool.pending_authority # None
                 /\ pool.pending_authority # Some(last'.args[1]))
                => last'.err = "Unauthorized"
             /\ (/\ pool.pending_authority = Some(last'.args[1])
                 /\ now < pool.authority_transfer_time[1] + AUTHORITY_TIMELOCK)
                => last'.err = "TimelockNotExpired"]_vars

(* The pending authority has taken over after the timelock *)
C8_Witness ==
    /\ last.op = "complete_authority_transfer"
    /\ last.err = "none"
    /\ pool.authority = last.args[1]
    /\ pool.authority # "admin"
    /\ now >= StartTime + AUTHORITY_TIMELOCK

(* C9: the first two-sided deposit (lp_supply = 0) into an unpaused pool   *)
(* succeeds when both amounts equal MIN_INITIAL_DEPOSIT and is rejected    *)
(* with InitialDepositTooSmall when either amount is one unit below it; on *)
(* success the depositor is minted D1 - MINIMUM_LIQUIDITY and lp_supply    *)
(* becomes MINIMUM_LIQUIDITY + minted = D1, so that MINIMUM_LIQUIDITY      *)
(* units of the supply are held by no one.                                 *)
C9_FirstDeposit ==
    [][(last'.op = "add_liquidity" /\ pool.lp_supply = 0 /\ ~pool.paused)
       => /\ (/\ last'.args[1] = MIN_INITIAL_DEPOSIT
              /\ last'.args[2] = MIN_INITIAL_DEPOSIT
              /\ last'.args[3] = 0)
             => last'.err = "none"
          /\ (\/ last'.args[1] = MIN_INITIAL_DEPOSIT - 1
              \/ last'.args[2] = MIN_INITIAL_DEPOSIT - 1)
             => last'.err = "InitialDepositTooSmall"
          /\ last'.err = "none"
             => /\ ledger'.user_lp - ledger.user_lp
                     = calculate_d(last'.args[1], last'.args[2],
                                   get_current_amplification(pool, now)).val
                       - MINIMUM_LIQUIDITY
                /\ last'.out[1] = ledger'.user_lp - ledger.user_lp
                /\ pool'.lp_supply = MINIMUM_LIQUIDITY + last'.out[1]
                /\ pool'.lp_supply
                     = calculate_d(last'.args[1], last'.args[2],
                                   get_current_amplification(pool, now)).val
                /\ pool'.lp_supply - ledger'.user_lp = MINIMUM_LIQUIDITY]_vars

(* The first deposit of MIN_INITIAL_DEPOSIT on both sides has been made *)
C9_Witness ==
    /\ last.op = "add_liquidity"
    /\ last.err = "none"
    /\ last.args[1] = MIN_INITIAL_DEPOSIT
    /\ last.args[2] = MIN_INITIAL_DEPOSIT
    /\ pool.lp_supply = 2 * MIN_INITIAL_DEPOSIT
    /\ ledger.user_lp = 2 * MIN_INITIAL_DEPOSIT - MINIMUM_LIQUIDITY

(* C10: MINIMUM_LIQUIDITY is locked after the first deposit, whichever     *)
(* entry point made it: once lp_supply is nonzero, the LP minted to users  *)
(* and not yet burned is at most lp_supply - MINIMUM_LIQUIDITY.            *)
C10_MinimumLiquidityLocked ==
    pool.lp_supply # 0 => ledger.user_lp <= pool.lp_supply - MINIMUM_LIQUIDITY

(* C11: the preconditions of remove_liquidity keep the locked minimum in   *)
(* place.  A call succeeds only if 0 < lp_amount < lp_supply and           *)
(* lp_supply - lp_amount >= MINIMUM_LIQUIDITY; lp_amount = 0 is rejected   *)
(* with ZeroAmount and any other call that breaks a precondition with      *)
(* InsufficientLiquidity; a successful call lowers lp_supply by lp_amount. *)
(* Once lp_supply is nonzero, no operation takes it below                  *)
(* MINIMUM_LIQUIDITY.                                                      *)
C11_FloorKept ==
    [][/\ last'.op = "remove_liquidity"
          => /\ last'.err = "none"
                => /\ 0 < last'.args[1]
                   /\ last'.args[1] < pool.lp_supply
                   /\ pool.lp_supply - last'.args[1] >= MINIMUM_LIQUIDITY
                   /\ pool'.lp_supply = pool.lp_supply - last'.args[1]
             /\ last'.args[1] = 0 => last'.err = "ZeroAmount"
             /\ (/\ last'.args[1] > 0
                 /\ \/ last'.args[1] >= pool.lp_supply
                    \/ pool.lp_supply - last'.args[1] < MINIMUM_LIQUIDITY)
                => last'.err = "InsufficientLiquidity"
       /\ pool.lp_supply # 0 => pool'.lp_supply >= MINIMUM_LIQUIDITY
       /\ pool'.lp_supply # 0 => pool'.lp_supply >= MINIMUM_LIQUIDITY]_vars

(* A withdrawal has taken the supply down to exactly the locked minimum *)
C11_Witness ==
    /\ last.op = "remove_liquidity"
    /\ last.err = "none"
    /\ last.args[1] > 0
    /\ pool.lp_supply = MINIMUM_LIQUIDITY

(* The outcome of the instruction op with arguments args on pool p, ledger *)
(* l at time t                                                             *)
Replay(p, l, t, op, args) ==
    IF op = "add_liquidity" THEN add_liquidity(p, l, t, args[1], args[2], args[3])
    ELSE IF op = "add_liquidity_single_sided"
         THEN add_liquidity_single_sided(p, l, args[1], args[2], args[3], args[4])
    ELSE IF op \in {"swap_bags_to_pump", "swap_pump_to_bags"}
         THEN swap(p, l, t, args[1], args[2], args[3], op = "swap_bags_to_pump")
    ELSE migrate(p, l, t, args[1], args[2], args[3], op = "migrate_bags_to_pump")

(* The ledger l with its vaults topped up to the tracked balances of p *)
Covered(p, l) ==
    [l EXCEPT !.bags_vault = Max(@, p.bags_balance),
              !.pump_vault = Max(@, p.pump_balance)]

(* C12: a vault-balance mismatch blocks trading and deposits.  Whenever    *)
(* the ledger holds less of either asset than the pool tracks, no swap,    *)
(* migration, add_liquidity or add_liquidity_single_sided call succeeds or *)
(* changes the pool or the ledger, and a call that passes its other checks *)
(* (it succeeds once the vaults cover the tracked balances) is rejected    *)
(* with VaultBalanceMismatch.                                              *)
C12_MismatchBlocks ==
    [][(~VaultsCover(pool, ledger) /\ last'.op \in GatedOps)
       => /\ last'.err # "none"
          /\ pool' = pool
          /\ ledger' = ledger
          /\ Replay(pool, Covered(pool, ledger), now, last'.op, last'.args).err = "none"
             => last'.err = "VaultBalanceMismatch"]_vars

(* The invariant D of the tracked balances of p at time t *)
PoolD(p, t) == calculate_d(p.bags_balance, p.pump_balance, get_current_amplification(p, t))

(* C13: for every successful two-sided add_liquidity the invariant D of    *)
(* the tracked balances at the current amplification after the call is at  *)
(* least (in fact above) D before the call; a deposit that passes the      *)
(* checks before the pricing and does not raise D is rejected with         *)
(* InvariantViolation, and the pool and the ledger stay as they are.       *)
C13_DepositRaisesD ==
    [][last'.op = "add_liquidity"
       => /\ last'.err = "none"
             => /\ PoolD(pool, now).err = "none"
                /\ PoolD(pool', now).err = "none"
                /\ PoolD(pool', now).val >= PoolD(pool, now).val
                /\ PoolD(pool', now).val > PoolD(pool, now).val
          /\ last'.err = "InvariantViolation" => (pool' = pool /\ ledger' = ledger)
          /\ (/\ ~pool.paused
              /\ last'.args[1] > 0 \/ last'.args[2] > 0
              /\ pool.lp_supply # 0
              /\ VaultsCover(pool, ledger)
              /\ PoolD(pool, now).err = "none"
              /\ calculate_d(pool.bags_balance + last'.args[1],
                             pool.pump_balance + last'.args[2],
                             get_current_amplification(pool, now)).err = "none"
              /\ calculate_d(pool.bags_balance + last'.args[1],
                             pool.pump_balance + last'.args[2],
                             get_current_amplification(pool, now)).val
                    <= PoolD(pool, now).val)
             => last'.err = "InvariantViolation"]_vars

(* A later two-sided deposit has raised a nonzero D *)
C13_Witness ==
    /\ last.op = "add_liquidity"
    /\ last.err = "none"
    /\ pool.lp_supply > last.out[1] + MINIMUM_LIQUIDITY
    /\ PoolD(pool, now).val > 2 * MIN_INITIAL_DEPOSIT

SwapOps == {"swap_bags_to_pump", "swap_pump_to_bags"}

(* C14: for every successful swap, D recomputed (calculate_d, the same     *)
(* amplification) from the tracked balances after the swap is at least D   *)
(* computed from the tracked balances before it.                           *)
C14_SwapKeepsD ==
    [][(last'.op \in SwapOps /\ last'.err = "none")
       => /\ PoolD(pool, now).err = "none"
          /\ PoolD(pool', now).err = "none"
          /\ PoolD(pool', now).val >= PoolD(pool, now).val]_vars

(* C15: the swap output is monotonic in the input.  For fixed tracked      *)
(* balances, amplification and fee, whenever the pricing succeeds for an   *)
(* input, every smaller input for which it succeeds too gets no more, both *)
(* gross and after the fee.                                                *)
C15_MonotonicOutput ==
    (last.op = "calculate_swap_output" /\ last.err = "none")
    => \A a \in QuoteAmounts :
          a <= last.args[1]
          => With(SwapQuote(pool, now, a, last.args[2]), LAMBDA smaller :
                 smaller.err = "none"
                 => /\ smaller.out[2] <= last.out[2]
                    /\ smaller.out[1] <= last.out[1])

(* A pool with both assets prices an input, with a smaller input priced    *)
(* strictly lower                                                          *)
C15_Witness ==
    /\ last.op = "calculate_swap_output" /\ last.err = "none"
    /\ pool.bags_balance > 0 /\ pool.pump_balance > 0
    /\ last.args[1] = 10000001 /\ last.out[1] > 0 /\ last.out[1] < last.out[2]
    /\ With(SwapQuote(pool, now, 1001, last.args[2]), LAMBDA smaller :
          smaller.err = "none" /\ smaller.out[1] > 0 /\ smaller.out[1] < last.out[1])

(* The gross output of a swap of amount_in against pool p at time t, as    *)
(* its definition reads: balance_out - calculate_y(balance_in + amount_in, *)
(* D, A)                                                                   *)
GrossOutput(p, t, amount_in, bags_to_pump) ==
    (IF bags_to_pump THEN p.pump_balance ELSE p.bags_balance)
    - calculate_y((IF bags_to_pump THEN p.bags_balance ELSE p.pump_balance) + amount_in,
                  PoolD(p, t).val, get_current_amplification(p, t)).val

(* The pool and the ledger after a swap of amount_in with gross output     *)
(* gross and fee fee                                                       *)
SwapEffectPool(p, amount_in, gross, fee, bags_to_pump) ==
    IF bags_to_pump
    THEN [p EXCEPT !.bags_balance = p.bags_balance + amount_in,
                   !.pump_balance = p.pump_balance - gross,
                   !.admin_fees_pump = p.admin_fees_pump
                                       + (fee * p.admin_fee_percent) \div 100]
    ELSE [p EXCEPT !.pump_balance = p.pump_balance + amount_in,
                   !.bags_balance = p.bags_balance - gross,
                   !.admin_fees_bags = p.admin_fees_bags
                                       + (fee * p.admin_fee_percent) \div 100]

SwapEffectLedger(l, amount_in, net, bags_to_pump) ==
    IF bags_to_pump
    THEN [l EXCEPT !.bags_vault = l.bags_vault + amount_in,
                   !.pump_vault = l.pump_vault - net]
    ELSE [l EXCEPT !.pump_vault = l.pump_vault + amount_in,
                   !.bags_vault = l.bags_vault - net]

(* C16: the effect of a successful swap.  With gross = balance_out -       *)
(* calculate_y(balance_in + amount_in, D, A), fee = gross * swap_fee_bps / *)
(* 10000 and admin share = fee * admin_fee_percent / 100, the user         *)
(* receives gross - fee, the input-side tracked balance grows by           *)
(* amount_in, the output-side tracked balance falls by gross, the admin    *)
(* fee accumulator of the output asset grows by the admin share, and       *)
(* nothing else of the pool changes (lp_supply and the amplification       *)
(* schedule included).                                                     *)
C16_SwapEffect ==
    [][(last'.op \in SwapOps /\ last'.err = "none")
       => With(GrossOutput(pool, now, last'.args[1], last'.op = "swap_bags_to_pump"),
               LAMBDA gross :
          With(ToInt(BDiv(BMul(FromInt(gross), FromInt(pool.swap_fee_bps)), FromInt(10000))),
               LAMBDA fee :
             /\ last'.out = <<gross - fee, gross>>
             /\ pool' = SwapEffectPool(pool, last'.args[1], gross, fee,
                                       last'.op = "swap_bags_to_pump")
             /\ ledger' = SwapEffectLedger(ledger, last'.args[1], gross - fee,
                                           last'.op = "swap_bags_to_pump")
             /\ pool'.lp_supply = pool.lp_supply
             /\ get_current_amplification(pool', now') = get_current_amplification(pool, now)))]_vars

(* A swap succeeded with a fee of which the admin has a share *)
C16_Witness ==
    /\ last.op \in SwapOps /\ last.err = "none"
    /\ last.out[2] > last.out[1] /\ last.out[1] > 0
    /\ pool.admin_fees_bags + pool.admin_fees_pump > 0

TradeOps == SwapOps \cup {"migrate_bags_to_pump", "migrate_pump_to_bags"}

(* floor(amount_in * (10000 - 500) / 10000) *)
SlippageFloor(amount_in) ==
    (amount_in \div 10000) * 9500 + ((amount_in % 10000) * 9500) \div 10000

(* What a trade of amount_in would pay the user: the net output of the     *)
(* swap pricing, amount_in less the migration fee for a migration          *)
NetOutput(p, t, op, amount_in) ==
    IF op \in SwapOps
    THEN [err |-> SwapQuote(p, t, amount_in, op = "swap_bags_to_pump").err,
          val |-> SwapQuote(p, t, amount_in, op = "swap_bags_to_pump").out[1]]
    ELSE Ok(amount_in - (amount_in \div 1000000) * 1337
                      - ((amount_in % 1000000) * 1337) \div 1000000)

(* C17: the maximum-slippage floor.  A swap or migration call with         *)
(* min_amount_out < floor(amount_in * 9500 / 10000) never succeeds, and is *)
(* rejected with SlippageTooHigh once it is past the pause and the         *)
(* minimum-amount checks; a call that is past the checks before pricing    *)
(* and whose net output is below min_amount_out is rejected with           *)
(* SlippageExceeded; so every successful swap or migration pays the user   *)
(* at least min_amount_out, itself at least floor(0.95 * amount_in).       *)
C17_SlippageFloor ==
    [][last'.op \in TradeOps
       => /\ last'.args[2] < SlippageFloor(last'.args[1])
             => /\ last'.err # "none" /\ pool' = pool /\ ledger' = ledger
                /\ (~pool.paused /\ last'.args[1] >= MIN_SWAP_AMOUNT)
                   => last'.err = "SlippageTooHigh"
          /\ (/\ ~pool.paused /\ last'.args[1] >= MIN_SWAP_AMOUNT
              /\ last'.args[2] >= SlippageFloor(last'.args[1])
              /\ now <= last'.args[3]
              /\ ledger.bags_vault >= pool.bags_balance
              /\ ledger.pump_vault >= pool.pump_balance
              /\ NetOutput(pool, now, last'.op, last'.args[1]).err = "none"
              /\ NetOutput(pool, now, last'.op, last'.args[1]).val < last'.args[2])
             => /\ last'.err = "SlippageExceeded" /\ pool' = pool /\ ledger' = ledger
          /\ last'.err = "none"
             => /\ last'.out[1] >= last'.args[2]
                /\ last'.out[1] >= SlippageFloor(last'.args[1])
                /\ last'.out[1] = NetOutput(pool, now, last'.op, last'.args[1]).val
                /\ (ledger.bags_vault - ledger'.bags_vault = last'.out[1]
                    \/ ledger.pump_vault - ledger'.pump_vault = last'.out[1])]_vars

(* A trade against a funded pool was rejected for a min_amount_out one     *)
(* unit below the floor                                                    *)
C17_Witness ==
    /\ last.op \in TradeOps
    /\ last.err = "SlippageTooHigh"
    /\ last.args[1] = 10000000 /\ last.args[2] = 9499999
    /\ pool.bags_balance > 0 /\ pool.pump_balance > 0

(* C18: the deadline.  A swap or migration call executed at a time         *)
(* strictly after its deadline never succeeds and changes nothing, and is  *)
(* rejected with TransactionExpired once it is past the pause, the         *)
(* minimum-amount and the slippage-floor checks; a call executed at a time *)
(* up to and including its deadline is not rejected for expiry.            *)
C18_Deadline ==
    [][last'.op \in TradeOps
       => /\ now > last'.args[3]
             => /\ last'.err # "none" /\ pool' = pool /\ ledger' = ledger
                /\ (/\ ~pool.paused /\ last'.args[1] >= MIN_SWAP_AMOUNT
                    /\ last'.args[2] >= SlippageFloor(last'.args[1]))
                   => last'.err = "TransactionExpired"
          /\ now <= last'.args[3] => last'.err # "TransactionExpired"]_vars

(* A trade that named a min_amount_out above the floor was rejected one    *)
(* second after its deadline                                               *)
C18_Witness ==
    /\ last.op \in TradeOps
    /\ last.err = "TransactionExpired"
    /\ last.args[3] = now - 1
    /\ pool.bags_balance > 0 /\ pool.pump_balance > 0

MigrateOps == {"migrate_bags_to_pump", "migrate_pump_to_bags"}

(* floor(amount_in * 1337 / 1000000) *)
FlatFee(amount_in) ==
    (amount_in \div 1000000) * 1337 + ((amount_in % 1000000) * 1337) \div 1000000

(* The tracked balance of the input and of the output side of operation op *)
BalanceIn(p, op) ==
    IF op \in {"migrate_bags_to_pump", "swap_bags_to_pump"}
    THEN p.bags_balance ELSE p.pump_balance

BalanceOut(p, op) ==
    IF op \in {"migrate_bags_to_pump", "swap_bags_to_pump"}
    THEN p.pump_balance ELSE p.bags_balance

(* C19: the migration swap.  Every successful migrate_* call charges       *)
(* fee = floor(amount_in * 1337 / 1000000) and pays amount_out = amount_in *)
(* - fee (1337 and 998663 for amount_in = 1000000); the input-side tracked *)
(* balance grows by amount_in and the output-side tracked balance falls by *)
(* amount_out, so the two balances together grow by exactly the fee.  A    *)
(* call whose amount_out exceeds the output-side tracked balance never     *)
(* succeeds, and is rejected with InsufficientLiquidity once it is past    *)
(* the checks that come before.                                            *)
C19_Migration ==
    [][last'.op \in MigrateOps
       => /\ last'.err = "none"
             => /\ last'.out = <<last'.args[1] - FlatFee(last'.args[1]),
                                 FlatFee(last'.args[1])>>
                /\ last'.args[1] = 1000000 => last'.out = <<998663, 1337>>
                /\ BalanceIn(pool', last'.op) = BalanceIn(pool, last'.op) + last'.args[1]
                /\ BalanceOut(pool', last'.op) = BalanceOut(pool, last'.op) - last'.out[1]
                /\ pool'.bags_balance + pool'.pump_balance
                   = pool.bags_balance + pool.pump_balance + FlatFee(last'.args[1])
          /\ last'.args[1] - FlatFee(last'.args[1]) > BalanceOut(pool, last'.op)
             => /\ last'.err # "none" /\ pool' = pool /\ ledger' = ledger
                /\ (/\ ~pool.paused /\ last'.args[1] >= MIN_SWAP_AMOUNT
                    /\ last'.args[2] >= SlippageFloor(last'.args[1])
                    /\ now <= last'.args[3]
                    /\ ledger.bags_vault >= pool.bags_balance
                    /\ ledger.pump_vault >= pool.pump_balance
                    /\ last'.args[1] - FlatFee(last'.args[1]) >= last'.args[2])
                   => last'.err = "InsufficientLiquidity"]_vars

(* The migration of 1000000 units paid 998663 and kept 1337 *)
C19_Witness ==
    /\ last.op \in MigrateOps /\ last.err = "none"
    /\ last.args[1] = 1000000
    /\ last.out = <<998663, 1337>>

(* What the vault of an asset holds above its tracked balance *)
Surplus(vault, balance) == IF vault > balance THEN vault - balance ELSE 0

(* C20: the admin withdrawal cannot reach LP principal.  A successful      *)
(* withdraw_admin_fees transfers, of each asset, the lesser of the fees    *)
(* accrued and what the vault holds above the tracked balance, lowers the  *)
(* fee accumulator by exactly that, and leaves the tracked balances,       *)
(* lp_supply and the rest of the pool alone; so a vault that covered its   *)
(* tracked balance still does.  When nothing is withdrawable of either     *)
(* asset the authority's call changes nothing, and is rejected with        *)
(* NoFeesToWithdraw (the accrued fees being within what the vaults hold).  *)
C20_AdminWithdrawal ==
    [][last'.op = "withdraw_admin_fees"
       => With(Min(pool.admin_fees_bags, Surplus(ledger.bags_vault, pool.bags_balance)),
               LAMBDA bags_due :
          With(Min(pool.admin_fees_pump, Surplus(ledger.pump_vault, pool.pump_balance)),
               LAMBDA pump_due :
             /\ last'.err = "none"
                => /\ last'.out = <<bags_due, pump_due>>
                   /\ bags_due + pump_due > 0
                   /\ pool' = [pool EXCEPT !.admin_fees_bags = pool.admin_fees_bags - bags_due,
                                           !.admin_fees_pump = pool.admin_fees_pump - pump_due]
                   /\ ledger' = [ledger EXCEPT !.bags_vault = ledger.bags_vault - bags_due,
                                               !.pump_vault = ledger.pump_vault - pump_due]
                   /\ pool'.lp_supply = pool.lp_supply
                   /\ ledger.bags_vault >= pool.bags_balance
                      => ledger'.bags_vault >= pool'.bags_balance
                   /\ ledger.pump_vault >= pool.pump_balance
                      => ledger'.pump_vault >= pool'.pump_balance
             /\ (last'.args[1] = pool.authority /\ bags_due = 0 /\ pump_due = 0)
                => /\ last'.err # "none" /\ pool' = pool /\ ledger' = ledger
                   /\ (/\ pool.admin_fees_bags <= ledger.bags_vault
                       /\ pool.admin_fees_pump <= ledger.pump_vault)
                      => last'.err = "NoFeesToWithdraw"))]_vars

(* The admin withdrew less than the fees accrued, because the vault held   *)
(* less than that above the tracked balance, which it still covers         *)
C20_Witness ==
    /\ last.op = "withdraw_admin_fees" /\ last.err = "none"
    /\ last.out[1] + last.out[2] > 0
    /\ pool.admin_fees_bags + pool.admin_fees_pump > 0
    /\ ledger.bags_vault >= pool.bags_balance
    /\ ledger.pump_vault >= pool.pump_balance

(* floor(a * b / c) on values that do not fit the product in 32 bits *)
FloorMulDiv(a, b, c) == ToInt(BDiv(BMul(FromInt(a), FromInt(b)), FromInt(c)))

(* swap_fee_bps * |bags * 10000 / (bags + pump) - 5000| / 5000 *)
ExitFeeBps(p) ==
    IF p.bags_balance + p.pump_balance = 0 THEN 0
    ELSE With(FloorMulDiv(p.bags_balance, 10000, p.bags_balance + p.pump_balance),
              LAMBDA ratio :
                (p.swap_fee_bps * (IF ratio >= 5000 THEN ratio - 5000 ELSE 5000 - ratio))
                \div 5000)

(* What a withdrawal of lp_amount pays of an asset with tracked balance    *)
(* balance: the proportional amount less the exit fee on it                *)
ExitPayout(p, balance, lp_amount) ==
    With(FloorMulDiv(balance, lp_amount, p.lp_supply), LAMBDA proportional :
        proportional - FloorMulDiv(proportional, ExitFeeBps(p), 10000))

(* C21: the payout of remove_liquidity.  The proportional amount of each   *)
(* asset is floor(balance * lp_amount / lp_supply); the exit fee rate is   *)
(* swap_fee_bps * |bags * 10000 / (bags + pump) - 5000| / 5000, which is 0 *)
(* for equal balances and at most swap_fee_bps; the user receives the      *)
(* proportional amount less that rate of it, of each asset; and a call     *)
(* that is past the amount and supply checks with a payout below the       *)
(* caller's minimum is rejected with SlippageExceeded.                     *)
C21_RemovePayout ==
    [][last'.op = "remove_liquidity"
       => /\ ExitFeeBps(pool) <= pool.swap_fee_bps
          /\ pool.bags_balance = pool.pump_balance => ExitFeeBps(pool) = 0
          /\ last'.err = "none"
             => /\ last'.out = <<ExitPayout(pool, pool.bags_balance, last'.args[1]),
                                 ExitPayout(pool, pool.pump_balance, last'.args[1])>>
                /\ last'.out[1] >= last'.args[2]
                /\ last'.out[2] >= last'.args[3]
                /\ ledger'.bags_vault = ledger.bags_vault - last'.out[1]
                /\ ledger'.pump_vault = ledger.pump_vault - last'.out[2]
          /\ (/\ last'.args[1] > 0
              /\ pool.lp_supply > last'.args[1]
              /\ pool.lp_supply - last'.args[1] >= MINIMUM_LIQUIDITY
              /\ \/ ExitPayout(pool, pool.bags_balance, last'.args[1]) < last'.args[2]
                 \/ ExitPayout(pool, pool.pump_balance, last'.args[1]) < last'.args[3])
             => /\ last'.err = "SlippageExceeded"
                /\ pool' = pool /\ ledger' = ledger]_vars

(* A withdrawal right after a first deposit paid out less than the         *)
(* proportional amounts: an exit fee was charged                           *)
C21_Witness ==
    /\ last.op = "remove_liquidity" /\ last.err = "none"
    /\ steps = 2
    /\ last.out[1] + last.out[2] > 0
    /\ pool.admin_fees_bags + pool.admin_fees_pump > 0

(* C22: the exit fee of remove_liquidity stays in the pool for the         *)
(* remaining LPs.  After a successful withdrawal the tracked balance of    *)
(* each asset has fallen by what the user was paid and by the admin's cut  *)
(* of the fee, and by nothing more: the rest of the fee is still counted   *)
(* in the tracked balance, from which later withdrawals are paid.          *)
C22_ExitFeeStaysTracked ==
    [][(last'.op = "remove_liquidity" /\ last'.err = "none")
       => /\ pool'.bags_balance
             = pool.bags_balance - last'.out[1]
               - (pool'.admin_fees_bags - pool.admin_fees_bags)
          /\ pool'.pump_balance
             = pool.pump_balance - last'.out[2]
               - (pool'.admin_fees_pump - pool.admin_fees_pump)]_vars

(* C23: the round trip.  A remove_liquidity that burned L LP, followed at  *)
(* once by an add_liquidity of exactly the two amounts it paid, never      *)
(* mints more than L LP.                                                   *)
C23_RoundTrip ==
    [][(/\ last.op = "remove_liquidity" /\ last.err = "none"
        /\ last'.op = "add_liquidity" /\ last'.err = "none"
        /\ last'.args[1] = last.out[1] /\ last'.args[2] = last.out[2])
       => last'.out[1] <= last.args[1]]_vars

(* calculate_d of the tracked balances of p with bags_amount and           *)
(* pump_amount added, at the amplification of time t                       *)
PoolDWith(p, t, bags_amount, pump_amount) ==
    calculate_d(p.bags_balance + bags_amount, p.pump_balance + pump_amount,
                get_current_amplification(p, t))

(* C24: a deposit into a pool that has supply mints                        *)
(* floor((D1 - D0) * lp_supply / D0), with D0 and D1 the invariant of the  *)
(* tracked balances before and after adding the deposited amounts at the   *)
(* current amplification; lp_supply grows by exactly the minted amount and *)
(* both tracked balances by exactly the deposited amounts; and a deposit   *)
(* that is past the checks before the mint with less minted than           *)
(* min_lp_amount is rejected with SlippageExceeded.                        *)
C24_LaterDeposit ==
    [][(last'.op = "add_liquidity" /\ pool.lp_supply > 0)
       => With(PoolD(pool, now), LAMBDA d0 :
          With(PoolDWith(pool, now, last'.args[1], last'.args[2]), LAMBDA d1 :
             /\ last'.err = "none"
                => /\ d0.err = "none" /\ d1.err = "none" /\ d0.val > 0
                   /\ last'.out[1] = FloorMulDiv(d1.val - d0.val, pool.lp_supply, d0.val)
                   /\ last'.out[1] >= last'.args[3]
                   /\ pool'.lp_supply = pool.lp_supply + last'.out[1]
                   /\ ledger'.user_lp = ledger.user_lp + last'.out[1]
                   /\ pool'.bags_balance = pool.bags_balance + last'.args[1]
                   /\ pool'.pump_balance = pool.pump_balance + last'.args[2]
             /\ (/\ ~pool.paused
                 /\ last'.args[1] + last'.args[2] > 0
                 /\ ledger.bags_vault >= pool.bags_balance
                 /\ ledger.pump_vault >= pool.pump_balance
                 /\ d0.err = "none" /\ d1.err = "none"
                 /\ d0.val > 0 /\ d1.val > d0.val
                 /\ FloorMulDiv(d1.val - d0.val, pool.lp_supply, d0.val) < last'.args[3])
                => /\ last'.err = "SlippageExceeded"
                   /\ pool' = pool /\ ledger' = ledger))]_vars

(* A one-asset deposit into a funded pool minted LP, fewer than the units  *)
(* deposited                                                               *)
C24_Witness ==
    /\ last.op = "add_liquidity" /\ last.err = "none"
    /\ last.args[2] = 0
    /\ last.out[1] > 0 /\ last.out[1] < last.args[1]
    /\ pool.lp_supply > last.out[1] + MINIMUM_LIQUIDITY

(* The distance of new_balance from the ideal balance old_balance * D1 /   *)
(* D0 of a deposit                                                         *)
ImbalanceOf(old_balance, new_balance, d0, d1) ==
    With(FloorMulDiv(old_balance, d1, d0), LAMBDA ideal :
        IF new_balance > ideal THEN new_balance - ideal ELSE ideal - new_balance)

(* The admin's cut of a fee of fee_bps on the imbalance of one asset *)
ImbalanceAdminCut(p, old_balance, new_balance, d0, d1, fee_bps) ==
    (FloorMulDiv(ImbalanceOf(old_balance, new_balance, d0, d1), fee_bps, 10000)
       * p.admin_fee_percent) \div 100

(* C25: the imbalance fee of add_liquidity follows the fee parameters of   *)
(* the pool.  For a deposit into a pool with supply the fee on each asset  *)
(* is the pool's current swap_fee_bps applied to                           *)
(* |new_balance - old_balance * D1 / D0|, and the admin-fee accumulator of *)
(* the asset grows by admin_fee_percent% of it, also after update_swap_fee *)
(* has changed the fee.                                                    *)
C25_ImbalanceFeeRate ==
    [][(last'.op = "add_liquidity" /\ last'.err = "none" /\ pool.lp_supply > 0)
       => With(PoolD(pool, now).val, LAMBDA d0 :
          With(PoolDWith(pool, now, last'.args[1], last'.args[2]).val, LAMBDA d1 :
             /\ pool'.admin_fees_bags - pool.admin_fees_bags
                = ImbalanceAdminCut(pool, pool.bags_balance, pool'.bags_balance,
                                    d0, d1, pool.swap_fee_bps)
             /\ pool'.admin_fees_pump - pool.admin_fees_pump
                = ImbalanceAdminCut(pool, pool.pump_balance, pool'.pump_balance,
                                    d0, d1, pool.swap_fee_bps)))]_vars

(* The pool p with both tracked balances at 0 *)
Drained(p) == [p EXCEPT !.bags_balance = 0, !.pump_balance = 0]

(* floor(amount * lp_supply / (bags_balance + pump_balance)) *)
ExpectedMint(p, amount) ==
    FloorMulDiv(amount, p.lp_supply, p.bags_balance + p.pump_balance)

(* C26: a single-sided deposit into a pool with supply mints               *)
(* floor(amount * lp_supply / (bags + pump)), adds amount to exactly one   *)
(* tracked balance and leaves the other unchanged; past the pause, amount  *)
(* and mint checks it is rejected with InsufficientLiquidity when the      *)
(* tracked balances sum to 0, with SlippageExceeded when the mint is below *)
(* min_lp_amount, and with SlippageTooHigh when min_lp_amount is below 95% *)
(* of the mint.                                                            *)
C26_SingleSided ==
    [][(last'.op = "add_liquidity_single_sided" /\ pool.lp_supply > 0)
       => /\ last'.err = "none"
             => /\ last'.out[1] = ExpectedMint(pool, last'.args[1])
                /\ last'.out[1] >= last'.args[4]
                /\ last'.args[4] >= SlippageFloor(last'.out[1])
                /\ pool' = [pool EXCEPT
                               !.bags_balance = IF last'.args[2] THEN @ + last'.args[1] ELSE @,
                               !.pump_balance = IF last'.args[2] THEN @ ELSE @ + last'.args[1],
                               !.lp_supply = @ + last'.out[1]]
                /\ ledger'.user_lp = ledger.user_lp + last'.out[1]
          /\ (/\ ~pool.paused /\ last'.args[1] >= MIN_SWAP_AMOUNT
              /\ last'.args[3] = (IF last'.args[2] THEN "bags" ELSE "pump"))
             => /\ add_liquidity_single_sided(Drained(pool), ledger, last'.args[1],
                                              last'.args[2], last'.args[3],
                                              last'.args[4]).err = "InsufficientLiquidity"
                /\ pool.bags_balance + pool.pump_balance = 0
                   => last'.err = "InsufficientLiquidity"
                /\ (/\ pool.bags_balance + pool.pump_balance > 0
                    /\ ExpectedMint(pool, last'.args[1]) < last'.args[4])
                   => last'.err = "SlippageExceeded"
                /\ (/\ pool.bags_balance + pool.pump_balance > 0
                    /\ ExpectedMint(pool, last'.args[1]) >= last'.args[4]
                    /\ last'.args[4] < SlippageFloor(ExpectedMint(pool, last'.args[1])))
                   => last'.err = "SlippageTooHigh"
          /\ last'.err # "none" => (pool' = pool /\ ledger' = ledger)]_vars

(* A single-sided deposit into a pool worth more than its supply minted    *)
(* fewer LP than units deposited                                           *)
C26_Witness ==
    /\ last.op = "add_liquidity_single_sided" /\ last.err = "none"
    /\ pool.lp_supply > last.out[1] + MINIMUM_LIQUIDITY
    /\ last.out[1] > 0 /\ last.out[1] < last.args[1]

(* C28: calculate_d on equal balances.  For every x > 0 and every          *)
(* amplification in [MIN_AMPLIFICATION, MAX_AMPLIFICATION],                *)
(* calculate_d(x, x, A) returns a value within CONVERGENCE_THRESHOLD of 2x *)
(* (and so never fails to converge).                                       *)
C28_EqualBalances ==
    (last.op = "calculate_d" /\ last.args[1] = last.args[2])
    => /\ last.err = "none"
       /\ BCmp(last.out[1], BAdd(BAdd(last.args[1], last.args[1]),
                                 FromInt(CONVERGENCE_THRESHOLD))) <= 0
       /\ BCmp(BAdd(last.out[1], FromInt(CONVERGENCE_THRESHOLD)),
               BAdd(last.args[1], last.args[1])) >= 0

(* The state of a lone staker: the user holds the whole stake of the       *)
(* period, nothing has accrued yet (the accumulator, the debt and the      *)
(* banked rewards are 0), so the stake was made at last_update_time and no *)
(* instruction has touched the period since                                *)
LoneStaker(period, position) ==
    /\ position.lp_staked > 0
    /\ period.total_staked = position.lp_staked
    /\ period.acc_reward_per_share = <<>>
    /\ position.reward_debt = 0
    /\ position.pending_rewards = 0

(* floor(s * floor(reward_per_second * elapsed * REWARD_PRECISION / s)     *)
(*       / REWARD_PRECISION)                                               *)
LoneReward(s, reward_per_second, elapsed) ==
    ToInt(BDiv(BMul(FromInt(s),
                    BDiv(BMul(FromInt(reward_per_second * elapsed), REWARD_PRECISION),
                         FromInt(s))),
               REWARD_PRECISION))

(* C29: farming accrual for a lone staker.  A user who staked s LP at t0   *)
(* inside the window, alone, and claims at t1 with t0 < t1 <= end_time is  *)
(* paid floor(s * floor(reward_per_second * (t1 - t0) * REWARD_PRECISION   *)
(* / s) / REWARD_PRECISION), and distributed_rewards grows by the same     *)
(* amount; for s = 100, reward_per_second = 10, t1 - t0 = 1000 the payment *)
(* is exactly 10000.                                                       *)
C29_LoneStakerAccrual ==
    [][(/\ last'.op = "claim_farming_rewards"
        /\ farming_period # None
        /\ LoneStaker(farming_period[1], user_position[last'.args[1]])
        /\ farming_period[1].last_update_time < now
        /\ now <= farming_period[1].end_time)
       => LET period == farming_period[1]
              user == last'.args[1]
              s == user_position[user].lp_staked
              elapsed == now - period.last_update_time
              paid == LoneReward(s, period.reward_per_second, elapsed)
          IN  /\ paid > 0 => last'.err = "none"
              /\ paid = 0 => last'.err = "NoRewardsToClaim"
              /\ last'.err = "none" =>
                   /\ last'.out[1] = paid
                   /\ farm_ledger'.user_reward[user] = farm_ledger.user_reward[user] + paid
                   /\ farm_ledger'.farming_vault = farm_ledger.farming_vault - paid
                   /\ farming_period'[1].distributed_rewards
                        = period.distributed_rewards + paid
              /\ (s = 100 /\ period.reward_per_second = 10 /\ elapsed = 1000)
                   => last'.err = "none" /\ last'.out[1] = 10000
      ]_vars

(* 100 LP staked alone at a reward of 10 per second were paid 10000 after  *)
(* 1000 seconds                                                            *)
C29_Witness ==
    /\ last.op = "claim_farming_rewards"
    /\ last.err = "none"
    /\ last.out[1] = 10000
    /\ farming_period[1].reward_per_second = 10
    /\ farming_period[1].total_staked = 100
    /\ user_position[last.args[1]].lp_staked = 100
    /\ farming_period[1].distributed_rewards = 10000
    /\ farming_period[1].acc_reward_per_share = <<0, 0, 0, 0, 100>>

(* C30: the staking window.  stake_lp is rejected with FarmingNotStarted   *)
(* when now < start_time and with FarmingEnded when now >= end_time, and   *)
(* leaves the position and the period unchanged; total_staked never        *)
(* increases at or after end_time.                                         *)
C30_StakingWindow ==
    [][/\ (/\ last'.op = "stake_lp"
           /\ (now < farming_period[1].start_time \/ now >= farming_period[1].end_time))
          => /\ last'.err # "none"
             /\ UNCHANGED farm_vars
             /\ (last'.args[2] > 0 /\ now < farming_period[1].start_time)
                  => last'.err = "FarmingNotStarted"
             /\ (last'.args[2] > 0 /\ now >= farming_period[1].end_time)
                  => last'.err = "FarmingEnded"
       /\ (farming_period # None /\ now >= farming_period[1].end_time)
          => farming_period'[1].total_staked <= farming_period[1].total_staked
      ]_vars

(* A stake was refused at or after the end of a period that has stake *)
C30_Witness ==
    /\ last.op = "stake_lp"
    /\ last.err = "FarmingEnded"
    /\ now >= farming_period[1].end_time
    /\ farming_period[1].total_staked > 0

AccruingOps == {"stake_lp", "unstake_lp", "claim_farming_rewards"}

(* acc_reward_per_share after an update at time t of a period with stake:  *)
(* reward_per_second * (min(t, end_time) - last_update_time)               *)
(* * REWARD_PRECISION / total_staked more, if that interval is not empty   *)
AccruedTo(period, t) ==
    IF (IF t <= period.end_time THEN t ELSE period.end_time) <= period.last_update_time
    THEN period.acc_reward_per_share
    ELSE BAdd(period.acc_reward_per_share,
              BDiv(BMul(FromInt(period.reward_per_second
                                * ((IF t <= period.end_time THEN t ELSE period.end_time)
                                   - period.last_update_time)),
                        REWARD_PRECISION),
                   FromInt(period.total_staked)))

(* C31: the accrual update rule.  update_farming_rewards is a no-op when   *)
(* now < start_time; when total_staked = 0 it only advances                *)
(* last_update_time and leaves acc_reward_per_share; otherwise it adds     *)
(* reward_per_second * (min(now, end_time) - last_update_time)             *)
(* * REWARD_PRECISION / total_staked to acc_reward_per_share, so the       *)
(* accumulator stops growing once last_update_time has reached end_time.   *)
C31_AccrualUpdate ==
    [][/\ farming_period # None
          => update_farming_rewards(farming_period[1], farming_period[1].start_time - 1)
               = Ok(farming_period[1])
       /\ (last'.op \in AccruingOps /\ last'.err = "none")
          => LET period == farming_period[1]
                 after == farming_period'[1]
             IN  /\ now >= period.start_time
                 /\ period.total_staked = 0
                    => /\ after.acc_reward_per_share = period.acc_reward_per_share
                       /\ after.last_update_time = now
                 /\ period.total_staked > 0
                    => /\ after.acc_reward_per_share = AccruedTo(period, now)
                       /\ after.last_update_time
                            = Max(period.last_update_time,
                                  IF now <= period.end_time THEN now ELSE period.end_time)
                 /\ period.last_update_time >= period.end_time
                    => after.acc_reward_per_share = period.acc_reward_per_share
      ]_vars

(* A claim after the end of the period accrued up to end_time only *)
C31_Witness ==
    /\ last.op = "claim_farming_rewards"
    /\ last.err = "none"
    /\ now > farming_period[1].end_time
    /\ farming_period[1].last_update_time = farming_period[1].end_time
    /\ farming_period[1].acc_reward_per_share # <<>>
    /\ farming_period[1].total_staked > 0

(* The instructions of the AdminOnly and WithdrawAdminFees accounts; the   *)
(* signer is their first argument                                          *)
AdminOps ==
    {"commit_amp_ramp", "ramp_amplification", "stop_ramp_amplification",
     "update_swap_fee", "set_paused", "withdraw_admin_fees",
     "initiate_authority_transfer", "cancel_authority_transfer"}

(* C32: the admin operations are authority-gated through every handoff.    *)
(* commit_amp_ramp, ramp_amplification, stop_ramp_amplification,           *)
(* update_swap_fee, set_paused, withdraw_admin_fees,                       *)
(* initiate_authority_transfer and cancel_authority_transfer succeed only  *)
(* when the signer is the pool's current authority; any other signer gets  *)
(* Unauthorized and nothing changes, so after a completed transfer the     *)
(* previous authority can perform none of them.                            *)
C32_AuthorityGated ==
    [][last'.op \in AdminOps
       => /\ last'.err = "none" => last'.args[1] = pool.authority
          /\ last'.args[1] # pool.authority
             => /\ last'.err = "Unauthorized"
                /\ pool' = pool
                /\ ledger' = ledger]_vars

(* The previous authority was refused after the handoff *)
C32_Witness ==
    /\ last.op \in AdminOps
    /\ last.err = "Unauthorized"
    /\ last.args[1] = "admin"
    /\ pool.authority # "admin"

(* C33: a swap never takes the whole output side.  In every reachable      *)
(* state, pools with one tracked balance at zero included, a successful    *)
(* swap_bags_to_pump / swap_pump_to_bags has a gross output strictly below *)
(* the tracked balance of the output side, which therefore stays positive. *)
C33_SwapLeavesOutputSide ==
    [][(last'.op \in SwapOps /\ last'.err = "none")
       => IF last'.op = "swap_bags_to_pump"
          THEN /\ pool.pump_balance - pool'.pump_balance < pool.pump_balance
               /\ pool'.pump_balance > 0
          ELSE /\ pool.bags_balance - pool'.bags_balance < pool.bags_balance
               /\ pool'.bags_balance > 0]_vars

(* C34: admin operations never reprice the pool at once.  In every         *)
(* reachable state get_current_amplification, evaluated at the same        *)
(* timestamp right before and right after a successful ramp_amplification  *)
(* or stop_ramp_amplification, returns the same value.                     *)
C34_NoInstantReprice ==
    [][(/\ last'.op \in {"ramp_amplification", "stop_ramp_amplification"}
        /\ last'.err = "none")
       => get_current_amplification(pool', now) = get_current_amplification(pool, now)
      ]_vars

(* The fields get_current_amplification reads *)
AmpFields(p) ==
    <<p.initial_amplification, p.target_amplification, p.amplification,
      p.ramp_start_time, p.ramp_stop_time>>

(* Delays after which the amplification is read again *)
LaterDelays == {0, 1, AMP_COMMIT_DELAY, MIN_RAMP_DURATION, 1000000}

(* C35: after stop_ramp_amplification the amplification is frozen.         *)
(* initial_amplification, target_amplification and amplification all equal *)
(* the value in effect at the stop, ramp_start_time = ramp_stop_time = 0,  *)
(* and get_current_amplification returns that value at every later time    *)
(* until the next successful ramp_amplification (no other instruction and  *)
(* no passing of time changes the fields it reads).                        *)
C35_StopFreezes ==
    [][/\ (last'.op = "stop_ramp_amplification" /\ last'.err = "none")
          => /\ AmpFields(pool') = <<get_current_amplification(pool, now),
                                     get_current_amplification(pool, now),
                                     get_current_amplification(pool, now), 0, 0>>
             /\ \A dt \in LaterDelays :
                   get_current_amplification(pool', now + dt)
                     = get_current_amplification(pool, now)
       /\ ~(last'.op \in {"ramp_amplification", "stop_ramp_amplification"}
            /\ last'.err = "none")
          => AmpFields(pool') = AmpFields(pool)
       /\ (pool.ramp_stop_time = 0 /\ AmpFields(pool') = AmpFields(pool))
          => \A dt \in LaterDelays :
                get_current_amplification(pool', now' + dt)
                  = get_current_amplification(pool, now)
      ]_vars

(* A decreasing ramp was stopped on its way and the clock has moved on *)
C35_Witness ==
    /\ last.op = "tick"
    /\ pool.ramp_start_time = 0
    /\ pool.ramp_stop_time = 0
    /\ pool.initial_amplification = pool.amplification
    /\ pool.target_amplification = pool.amplification
    /\ pool.amplification \notin {1, 19, 500, 1000, 2000}
    /\ pool.amplification < 1000
    /\ get_current_amplification(pool, now) = pool.amplification

(* C36: the effective amplification stays in range.  In every reachable    *)
(* state and at every time get_current_amplification returns a value in    *)
(* [MIN_AMPLIFICATION, MAX_AMPLIFICATION], across any sequence of pool     *)
(* creation, commit_amp_ramp, ramp_amplification, stop_ramp_amplification  *)
(* and time advances.                                                      *)
C36_AmplificationInRange ==
    \A dt \in LaterDelays :
       /\ get_current_amplification(pool, now + dt) >= MIN_AMPLIFICATION
       /\ get_current_amplification(pool, now + dt) <= MAX_AMPLIFICATION

(* A reveal above MAX_AMPLIFICATION, within the allowed change of a pool   *)
(* that is ramping up, was refused                                         *)
C36_Witness ==
    /\ last.op = "ramp_amplification"
    /\ last.err = "InvalidAmplification"
    /\ last.args[1] = pool.authority
    /\ last.args[2] > MAX_AMPLIFICATION
    /\ last.args[2] <= MAX_AMP_CHANGE * get_current_amplification(pool, now)
    /\ pool.pending_amp_commit = Some(Hash(last.args[2], last.args[3], last.args[4]))

(* C37: admin fees are backed by untracked surplus.  Starting from empty   *)
(* vaults and zero tracked balances, with nothing sent to the vaults       *)
(* outside the program, after any sequence of deposits, withdrawals,       *)
(* swaps and migrations the admin fee accumulator of each asset is at most *)
(* what its vault holds beyond the tracked balance.                        *)
C37_AdminFeesBacked ==
    /\ pool.admin_fees_bags <= ledger.bags_vault - pool.bags_balance
    /\ pool.admin_fees_pump <= ledger.pump_vault - pool.pump_balance

(* x * y >= u * v on values whose products exceed the machine word *)
ProductAtLeast(x, y, u, v) ==
    BCmp(BMul(FromInt(x), FromInt(y)), BMul(FromInt(u), FromInt(v))) >= 0

(* C38: deposits never dilute existing LP holders.  After every successful *)
(* add_liquidity into a pool that has supply, D1 * old_lp_supply >=        *)
(* D0 * new_lp_supply with D0 and D1 the invariant of the tracked balances *)
(* before and after; after every successful add_liquidity_single_sided     *)
(* into a pool that has supply, (sum of the tracked balances after) *      *)
(* old_lp_supply >= (sum before) * new_lp_supply.                          *)
C38_NoDilution ==
    [][(last'.err = "none" /\ pool.lp_supply > 0)
       => /\ last'.op = "add_liquidity"
             => /\ PoolD(pool, now).err = "none"
                /\ PoolD(pool', now).err = "none"
                /\ ProductAtLeast(PoolD(pool', now).val, pool.lp_supply,
                                  PoolD(pool, now).val, pool'.lp_supply)
          /\ last'.op = "add_liquidity_single_sided"
             => ProductAtLeast(pool'.bags_balance + pool'.pump_balance, pool.lp_supply,
                               pool.bags_balance + pool.pump_balance, pool'.lp_supply)
      ]_vars

(* A lopsided deposit into a pool that has supply was accepted and minted  *)
(* LP                                                                      *)
C38_Witness ==
    /\ last.op = "add_liquidity"
    /\ last.err = "none"
    /\ last.args[1] # last.args[2]
    /\ last.out[1] > 0
    /\ pool.lp_supply - last.out[1] > MINIMUM_LIQUIDITY

(* What claim_farming_rewards would pay the position at time t *)
Claimable(period, position, t) ==
    position.pending_rewards
      + calculate_pending_rewards(position, update_farming_rewards(period, t).val).val

EarningDelays == {1, 1000, MIN_FARMING_DURATION}

(* Seconds of the period between t and t + dt *)
AccruedSeconds(period, t, dt) == Max(0, Min(t + dt, period.end_time) - t)

(* C40: a stake earns only from its stake time.  A successful stake_lp     *)
(* first banks into pending_rewards what the previous lp_staked earned,    *)
(* then resets reward_debt to lp_staked * acc_reward_per_share /           *)
(* REWARD_PRECISION, so what the position can claim is the same right      *)
(* before and right after staking; a staker who joins with no stake starts *)
(* with nothing to claim, and what it can claim later, with no instruction *)
(* in between, stays below its stake's share of the rewards of the seconds *)
(* since it joined plus one unit.                                          *)
C40_StakeEarnsFromStakeTime ==
    [][(last'.op = "stake_lp" /\ last'.err = "none")
       => LET user == last'.args[1]
              before == user_position[user]
              after == user_position'[user]
              period == farming_period[1]
              period_after == farming_period'[1]
              earned == IF before.lp_staked > 0
                        THEN calculate_pending_rewards(
                                 before, update_farming_rewards(period, now).val).val
                        ELSE 0
          IN  /\ after.lp_staked = before.lp_staked + last'.args[2]
              /\ after.pending_rewards = before.pending_rewards + earned
              /\ after.reward_debt
                   = ToInt(BDiv(BMul(FromInt(after.lp_staked),
                                     period_after.acc_reward_per_share),
                                REWARD_PRECISION))
              /\ Claimable(period_after, after, now) = Claimable(period, before, now)
              /\ before.lp_staked = 0
                   => /\ Claimable(period_after, after, now) = before.pending_rewards
                      /\ \A dt \in EarningDelays :
                            Claimable(period_after, after, now + dt) - before.pending_rewards
                              <= (after.lp_staked * period_after.reward_per_second
                                    * AccruedSeconds(period_after, now, dt))
                                   \div period_after.total_staked + 1
      ]_vars

(* A staker joined a period in which rewards had accrued to another        *)
(* staker, at an accumulator that is not a whole number of rewards per LP, *)
(* and has nothing to claim                                                *)
C40_Witness ==
    /\ last.op = "stake_lp"
    /\ last.err = "none"
    /\ farming_period[1].acc_reward_per_share # <<>>
    /\ BCmp(BMul(BDiv(farming_period[1].acc_reward_per_share, REWARD_PRECISION),
                 REWARD_PRECISION),
            farming_period[1].acc_reward_per_share) < 0
    /\ user_position[last.args[1]].lp_staked = last.args[2]
    /\ farming_period[1].total_staked > last.args[2]
    /\ user_position[last.args[1]].reward_debt > 0
    /\ Claimable(farming_period[1], user_position[last.args[1]], now) = 0

=============================================================================
